---- MODULE Spec2Model ----
(***************************************************************************)
(* Model of the entity-detail page script of entity-validator-frontend     *)
(* (src/src/index.tsx): the ownership-tree layout engine                   *)
(* (buildRecursiveOwnershipTree, invertOwnershipTree, createOwnershipSVG)  *)
(* and the screening-list consolidator (normalizeName, addPerson).         *)
(*                                                                         *)
(* Conventions.                                                            *)
(*  - A JavaScript string that is only compared is a TLA+ string; a name   *)
(*    that normalizeName takes apart is a sequence of UTF-16 code units.   *)
(*  - A missing / falsy field (undefined, null, 0, '') is the value the    *)
(*    `||` of the source cannot tell from it: "" for strings, 0 for        *)
(*    numbers.                                                             *)
(*  - A percentage p is the integer p * PScale, so that the products the   *)
(*    script computes in floating point stay exact in the model; the       *)
(*    inputs are restricted to trees on which they are exact.              *)
(*  - The id 'node-' + k of a positioned node is the integer k; a null     *)
(*    parentId is NoParent.                                                *)
(***************************************************************************)
EXTENDS Integers, Sequences, FiniteSets, TLC

\* ------------------------------------------------------------------ bounds
MaxNodes == 4       \* nodes of an exhaustively enumerated input tree
MaxFan == 7         \* children of the wide node of a fan-shaped input tree
MaxSide == 2        \* children of the narrow sibling in a fan-shaped input tree
MaxCalls == 3       \* addPerson calls of one accumulation pass
MaxWords == 3       \* words of a name whose word order is varied
MaxEntries == 3     \* records of one screening list document, all lists together

\* ------------------------------------------------------- program constants
PScale == 10 * 10            \* model unit: 1/PScale of a percent
LeafWidth == 250
CompactWidth == 200
CompactThreshold == 6
LevelHeight == 150
BoxWidth == 200
StartY == 50
NoParent == 0 - 1
NoDepth == 0 - 99            \* a node object without a depth property
VirtualRootName == "Ultimate Beneficial Owners"
ZoomScale == 10          \* zoom factors are held in tenths
minZoom == 5             \* 0.5
maxZoom == 30            \* 3
zoomStep == 2            \* 0.2
MaxZoomCalls == 12       \* zoom calls per page
MaxOwners == 2           \* shareholders of a company in the documents of the page
MaxTimers == 2           \* setTimeout callbacks pending at a time
MaxWalkNodes == 4        \* nodes of a tree whose layout is followed call by call

\* ------------------------------------------------------------ small helpers
RECURSIVE SumSeq(_)
SumSeq(s) == IF s = <<>> THEN 0 ELSE Head(s) + SumSeq(Tail(s))

RECURSIVE Reverse(_)
Reverse(s) == IF s = <<>> THEN <<>> ELSE Append(Reverse(Tail(s)), Head(s))

Min(S) == CHOOSE m \in S : \A n \in S : m <= n

Range(s) == {s[i] : i \in 1..Len(s)}

\* ------------------------------------------------------------ OwnershipNode
\* One node object of the ownership tree as the script reads it.  name is
\* `company_name || name`; depth and effective_percentage exist only on the
\* objects invertOwnershipTree builds.
Node(name, cn, pct, eff, depth, sh, ch) ==
  [name |-> name, company_number |-> cn, percentage |-> pct,
   effective_percentage |-> eff, depth |-> depth,
   shareholders |-> sh, children |-> ch]

\* Faulty variant: the `children` array is left out.
allChildren_ShareholdersOnly(node) == node.shareholders

\* [...shareholders, ...children]
allChildren(node) == node.shareholders \o node.children

\* ------------------------------------------------------- invertOwnershipTree
Or(a, b) == IF a # 0 THEN a ELSE b          \* a || b on numbers

\* (cumulativePercentage * childPercentage) / 100 on scaled percentages
MulPct(cum, pct) == (cum * pct) \div (100 * PScale)

\* One element of currentPath: the node's own name, number and
\* `node.percentage || 100`.
PathEntry(node) ==
  [name |-> node.name, company_number |-> node.company_number,
   percentage |-> Or(node.percentage, 100 * PScale)]

\* Faulty variant: an absent percentage counts as 100, as it does for the path
\* entry.
childPercentageOf_Default100(child) == Or(child.percentage, 100 * PScale)

\* const childPercentage = child.percentage || 0
childPercentageOf(child) == Or(child.percentage, 0)

\* findUBOs: the sequence `ubos` the depth-first descent pushes, one entry
\* per leaf, in traversal order.
RECURSIVE findUBOs(_, _, _)
RECURSIVE findUBOsEach(_, _, _, _)
findUBOs(node, path, cumulativePercentage) ==
  LET currentPath == Append(path, PathEntry(node))
      last == currentPath[Len(currentPath)]
  IN IF allChildren(node) = <<>>
     THEN << [name |-> last.name, company_number |-> last.company_number,
              effective_percentage |-> cumulativePercentage,
              path |-> currentPath] >>
     ELSE findUBOsEach(allChildren(node), 1, currentPath, cumulativePercentage)

\* allChildren.forEach(child => findUBOs(child, currentPath, newCumulative))
findUBOsEach(kids, i, currentPath, cumulativePercentage) ==
  IF i > Len(kids) THEN <<>>
  ELSE LET childPercentage == childPercentageOf(kids[i])
           newCumulative == MulPct(cumulativePercentage, childPercentage)
       IN findUBOs(kids[i], currentPath, newCumulative)
          \o findUBOsEach(kids, i + 1, currentPath, cumulativePercentage)

RECURSIVE buildChildChain(_, _)
buildChildChain(pathNodes, startDepth) ==
  IF pathNodes = <<>> THEN <<>>
  ELSE LET firstNode == pathNodes[1]
       IN << Node(firstNode.name, firstNode.company_number, firstNode.percentage,
                  0, startDepth, <<>>,
                  buildChildChain(Tail(pathNodes), startDepth + 1)) >>

\* The object `ubos.map(...)` returns for one UBO: the leaf promoted to
\* depth 0, the reversed path hanging below it.
invertedTree(ubo) ==
  LET reversedPath == Reverse(ubo.path)
  IN Node(reversedPath[1].name, reversedPath[1].company_number,
          ubo.effective_percentage, ubo.effective_percentage, 0,
          <<>>,
          IF Len(reversedPath) > 1
          THEN << Node(reversedPath[2].name, reversedPath[2].company_number,
                       reversedPath[2].percentage, 0, 1, <<>>,
                       buildChildChain(SubSeq(reversedPath, 3, Len(reversedPath)), 2)) >>
          ELSE <<>>)

invertOwnershipTree(tree) ==
  LET ubos == findUBOs(tree, <<>>, 100 * PScale)
      invertedTrees == [i \in 1..Len(ubos) |-> invertedTree(ubos[i])]
  IN Node(VirtualRootName, "", 100 * PScale, 0, 0 - 1, <<>>, invertedTrees)

\* ----------------------------------------------- buildRecursiveOwnershipTree
RECURSIVE getSubtreeWidth(_)
\* Faulty variant: the compact layout starts at 6 children instead of 7.
getSubtreeWidth_CompactFromSix(node) ==
  LET kids == allChildren(node)
      total == SumSeq([i \in 1..Len(kids) |-> getSubtreeWidth(kids[i])])
  IN IF Len(kids) = 0 THEN LeafWidth
     ELSE IF Len(kids) >= CompactThreshold THEN Len(kids) * CompactWidth
     ELSE IF total > LeafWidth THEN total ELSE LeafWidth

getSubtreeWidth(node) ==
  LET kids == allChildren(node)
      total == SumSeq([i \in 1..Len(kids) |-> getSubtreeWidth(kids[i])])
  IN IF Len(kids) = 0 THEN LeafWidth
     ELSE IF Len(kids) > CompactThreshold THEN Len(kids) * CompactWidth
     ELSE IF total > LeafWidth THEN total ELSE LeafWidth

\* const childWidths = allChildren.map(child => getSubtreeWidth(child))
childWidthsOf(kids) == [i \in 1..Len(kids) |-> getSubtreeWidth(kids[i])]

\* Faulty variant: the registry number is not used: every node is keyed by name and
\* position.
nodeKeyOf_NameAndPosition(node, x, y) ==
  [company_number |-> "", name |-> node.name, x |-> x, y |-> y]

\* companyNumber || (nodeName + '-' + x + '-' + y); the two forms are kept
\* apart as the concatenation keeps them apart for names without '-'.
nodeKeyOf(node, x, y) ==
  IF node.company_number # ""
  THEN [company_number |-> node.company_number, name |-> "", x |-> 0, y |-> 0]
  ELSE [company_number |-> "", name |-> node.name, x |-> x, y |-> y]

\* node.effective_percentage || node.percentage || (depth === 0 ? 100 : 0)
displayPercentageOf(node, depth) ==
  Or(node.effective_percentage,
     Or(node.percentage, IF depth = 0 THEN 100 * PScale ELSE 0))

\* Faulty variant: the link is recorded from child to parent.
linkOf_Swapped(parentId, nodeId) == [source |-> nodeId, target |-> parentId]

\* links.push({ source: parentId, target: nodeId })
linkOf(parentId, nodeId) == [source |-> parentId, target |-> nodeId]

\* Faulty variant: the children are given their parent's depth.
childDepthOf_Same(depth) == depth

\* The depth traverseTree passes to the children of a node at `depth`.
childDepthOf(depth) == depth + 1

\* The layout pass.  st carries the closure variables of one
\* buildRecursiveOwnershipTree call: nodes, links, seenCompanies; as
\* reserved, every childWidths array a call computed, with the node it was
\* computed for; and as visits, the '[TREE] Depth ... Processing' console
\* line of every call, with whether the 'Skipping duplicate node' line
\* followed it.
RECURSIVE traverseTree(_, _, _, _, _, _, _)
RECURSIVE traverseEach(_, _, _, _, _, _, _, _, _, _)
RECURSIVE traverseNode(_, _, _, _, _, _, _)
\* (the arguments are evaluated once, as a JavaScript call evaluates them)
traverseTree(node, depth, x0, y0, parentId, effectivePercentage, st0) ==
  CHOOSE r \in { traverseNode(node, depth, x, y, parentId, effectivePercentage, st) :
                   x \in {x0}, y \in {y0}, st \in {st0} } : TRUE

traverseNode(node, depth, x, y, parentId, effectivePercentage, st) ==
  LET nodeId == Len(st.nodes)
  IN IF depth = 0 - 1 /\ node.name = VirtualRootName
     THEN LET children == node.children
              childWidths == childWidthsOf(children)
              totalWidth == SumSeq(childWidths)
              st1 == [st EXCEPT !.reserved =
                        @ \cup {[node |-> node, kids |-> children, id |-> NoParent,
                                 x |-> x, widths |-> childWidths]}]
          IN traverseEach(children, childWidths, 1, x - totalWidth \div 2,
                          y + LevelHeight, 0, NoParent, 100 * PScale, TRUE, st1)
     ELSE LET nodeKey == nodeKeyOf(node, x, y)
              kids == allChildren(node)
              childWidths == childWidthsOf(kids)
              totalWidth == SumSeq(childWidths)
              visit == [name |-> node.name, companyNumber |-> node.company_number,
                        depth |-> depth, x |-> x, y |-> y, parentId |-> parentId,
                        skipped |-> nodeKey \in st.seenCompanies,
                        kids |-> Len(kids)]
              st1 == [st EXCEPT
                        !.visits = Append(@, visit),
                        !.seenCompanies = @ \cup {nodeKey},
                        !.nodes = Append(@, [id |-> nodeId, name |-> node.name,
                                             companyNumber |-> node.company_number,
                                             percentage |-> displayPercentageOf(node, depth),
                                             depth |-> depth, x |-> x, y |-> y]),
                        !.links = IF parentId # NoParent
                                  THEN Append(@, linkOf(parentId, nodeId))
                                  ELSE @]
              st2 == [st1 EXCEPT !.reserved =
                        @ \cup {[node |-> node, kids |-> kids, id |-> nodeId,
                                 x |-> x, widths |-> childWidths]}]
          IN IF nodeKey \in st.seenCompanies
             THEN [st EXCEPT !.visits = Append(@, visit)]
             ELSE IF Len(kids) = 0 THEN st1
             ELSE traverseEach(kids, childWidths, 1, x - totalWidth \div 2,
                               y + LevelHeight, childDepthOf(depth), nodeId,
                               effectivePercentage, FALSE, st2)

\* The forEach over the children: child idx is centred in its reserved
\* width, then currentX advances by that width.
traverseEach(kids, childWidths, idx, currentX, childY, childDepth, parentId, effectivePercentage, virtual, st) ==
  IF idx > Len(kids) THEN st
  ELSE LET sh == kids[idx]
           childWidth == childWidths[idx]
           childX == currentX + childWidth \div 2
           childEffective ==
             IF virtual THEN 100 * PScale
             ELSE Or(sh.effective_percentage,
                     MulPct(effectivePercentage, Or(sh.percentage, 100 * PScale)))
       IN traverseEach(kids, childWidths, idx + 1, currentX + childWidth, childY,
                       childDepth, parentId, effectivePercentage, virtual,
                       traverseTree(sh, childDepth, childX, childY, parentId,
                                    childEffective, st))

\* xOffset of createOwnershipSVG: 50 - minX when the leftmost box would start
\* left of 50, else 0.
xOffsetOf(ns) ==
  LET minX == Min({ns[i].x : i \in 1..Len(ns)}) - 100
  IN IF minX < 50 THEN 50 - minX ELSE 0

\* createOwnershipSVG, as far as it changes the node array: every node is
\* shifted right by xOffset so that the leftmost box keeps a 50px margin.
createOwnershipSVG(ns) ==
  IF Len(ns) = 0 THEN ns
  ELSE [i \in 1..Len(ns) |-> [ns[i] EXCEPT !.x = @ + xOffsetOf(ns)]]

EmptyPass ==
  [nodes |-> <<>>, links |-> <<>>, seenCompanies |-> {}, reserved |-> {},
   visits |-> <<>>]

\* Faulty variant: the inversion stores the effective percentage in the
\* leaves of the input tree instead of in the objects it creates.
RECURSIVE treeAfter_MarkLeaves(_, _)
treeAfter_MarkLeaves(tree, inverted) ==
  IF ~inverted THEN tree
  ELSE IF allChildren(tree) = <<>> THEN [tree EXCEPT !.effective_percentage = 1 * PScale]
  ELSE [tree EXCEPT !.shareholders = [i \in 1..Len(@) |-> treeAfter_MarkLeaves(@[i], inverted)],
                    !.children = [i \in 1..Len(@) |-> treeAfter_MarkLeaves(@[i], inverted)]]

\* The input object graph as the call leaves it.  findUBOs, getSubtreeWidth
\* and traverseTree only read the nodes they are given, and every assignment
\* of invertOwnershipTree has a freshly created object as its target.
treeAfter(tree, inverted) == tree

\* One call buildRecursiveOwnershipTree(tree, 0, inverted) with tree non-null:
\* the working tree, the node and link arrays handed to the renderer, the
\* widths reserved on the way, and the input tree as the call leaves it.
buildRecursiveOwnershipTree(tree, inverted) ==
  CHOOSE r \in
    { [input |-> treeAfter(tree, inverted),
       workingTree |-> working, nodes |-> createOwnershipSVG(st.nodes),
       links |-> st.links, reserved |-> st.reserved, visits |-> st.visits,
       xOffset |-> IF Len(st.nodes) = 0 THEN 0 ELSE xOffsetOf(st.nodes)] :
        working \in {IF inverted THEN invertOwnershipTree(tree) ELSE tree},
        st \in {LET working == IF inverted THEN invertOwnershipTree(tree) ELSE tree
                    treeWidth == getSubtreeWidth(working)
                    startX == treeWidth \div 2
                    startDepth == IF inverted /\ working.depth = 0 - 1
                                  THEN 0 - 1 ELSE 0
                IN traverseTree(working, startDepth, startX, StartY, NoParent,
                                100 * PScale, EmptyPass)} } : TRUE

\* ------------------------------------------------------------ normalizeName
\* A name is a sequence of one-character strings.  Alphabet lists the
\* characters of the model in ascending UTF-16 code unit order; the space is
\* its only whitespace character.
Alphabet ==
  << " ", "&", ",", ".",
     "0", "1", "2", "3", "4", "5", "6", "7", "8", "9",
     "A", "B", "C", "D", "E", "F", "G", "H", "I", "J", "K", "L", "M",
     "N", "O", "P", "Q", "R", "S", "T", "U", "V", "W", "X", "Y", "Z",
     "a", "b", "c", "d", "e", "f", "g", "h", "i", "j", "k", "l", "m",
     "n", "o", "p", "q", "r", "s", "t", "u", "v", "w", "x", "y", "z" >>

Ord(c) == CHOOSE i \in 1..Len(Alphabet) : Alphabet[i] = c
Digits == {Alphabet[i] : i \in 5..14}
UpperLetters == {Alphabet[i] : i \in 15..40}
LowerLetters == {Alphabet[i] : i \in 41..66}

\* String.prototype.toUpperCase
toUpperChar(c) == IF c \in LowerLetters THEN Alphabet[Ord(c) - 26] ELSE c
toUpperCase(s) == [i \in 1..Len(s) |-> toUpperChar(s[i])]

\* String.prototype.trim
RECURSIVE trimStart(_)
trimStart(s) == IF s # <<>> /\ Head(s) = " " THEN trimStart(Tail(s)) ELSE s
trim(s) == Reverse(trimStart(Reverse(trimStart(s))))

startsWithAt(s, pat, i) ==
  /\ i + Len(pat) - 1 <= Len(s)
  /\ \A k \in 1..Len(pat) : s[i + k - 1] = pat[k]

\* String.prototype.includes, endsWith
includes(s, pat) == \E i \in 1..(Len(s) + 1) : startsWithAt(s, pat, i)
endsWith(s, pat) ==
  Len(pat) <= Len(s) /\ startsWithAt(s, pat, Len(s) - Len(pat) + 1)

\* s.split(pat).join(rep) for a non-empty pat: every occurrence of pat,
\* found left to right without overlap, becomes rep.
RECURSIVE splitJoin(_, _, _)
splitJoin(s, pat, rep) ==
  IF s = <<>> THEN <<>>
  ELSE IF startsWithAt(s, pat, 1)
       THEN rep \o splitJoin(SubSeq(s, Len(pat) + 1, Len(s)), pat, rep)
       ELSE <<Head(s)>> \o splitJoin(Tail(s), pat, rep)

\* s.split(c) for a single character c: the pieces between the occurrences
\* of c, empty pieces included ('' gives ['']).
RECURSIVE splitOn(_, _)
splitOn(s, c) ==
  IF \A i \in 1..Len(s) : s[i] # c THEN <<s>>
  ELSE LET i == CHOOSE k \in 1..Len(s) :
                  s[k] = c /\ \A j \in 1..(k - 1) : s[j] # c
       IN <<SubSeq(s, 1, i - 1)>> \o splitOn(SubSeq(s, i + 1, Len(s)), c)

\* words.join(' ')
RECURSIVE joinSpace(_)
joinSpace(words) ==
  IF words = <<>> THEN <<>>
  ELSE IF Len(words) = 1 THEN words[1]
  ELSE words[1] \o <<" ">> \o joinSpace(Tail(words))

\* a < b as JavaScript compares strings: by code units, a proper prefix first.
RECURSIVE lessThan(_, _)
lessThan(a, b) ==
  IF b = <<>> THEN FALSE
  ELSE IF a = <<>> THEN TRUE
  ELSE IF Head(a) # Head(b) THEN Ord(Head(a)) < Ord(Head(b))
  ELSE lessThan(Tail(a), Tail(b))

\* Array.prototype.sort() without comparator (a stable ascending sort).
RECURSIVE insertSorted(_, _)
insertSorted(sorted, w) ==
  IF sorted = <<>> THEN <<w>>
  ELSE IF lessThan(w, Head(sorted)) THEN <<w>> \o sorted
  ELSE <<Head(sorted)>> \o insertSorted(Tail(sorted), w)

\* Faulty variant: the words stay in the order they have in the name.
sort_KeepOrder(words) == words

RECURSIVE sort(_)
sort(words) ==
  IF words = <<>> THEN <<>>
  ELSE insertSorted(sort(SubSeq(words, 1, Len(words) - 1)), words[Len(words)])

Titles ==
  { <<"M", "R">>, <<"M", "R", "S">>, <<"M", "S">>, <<"M", "I", "S", "S">>,
    <<"D", "R">>, <<"S", "I", "R">>, <<"D", "A", "M", "E">>,
    <<"L", "O", "R", "D">>, <<"L", "A", "D", "Y">>,
    <<"P", "R", "O", "F", "E", "S", "S", "O", "R">>, <<"P", "R", "O", "F">> }

\* Faulty variant: no title is removed.
removeTitle_Keep(s) == s

\* s.replace(/^(MR|MRS|...|PROF)\.?\s+/i, ''): a leading title, an optional
\* period and the whitespace after it are removed; without whitespace after
\* the title nothing is.
removeTitle(s) ==
  LET afterTitle(t) ==
        IF Len(s) > Len(t) /\ s[Len(t) + 1] = "."
        THEN SubSeq(s, Len(t) + 2, Len(s))
        ELSE SubSeq(s, Len(t) + 1, Len(s))
      matches(t) ==
        /\ startsWithAt(toUpperCase(s), t, 1)
        /\ afterTitle(t) # <<>>
        /\ Head(afterTitle(t)) = " "
  IN IF \E t \in Titles : matches(t)
     THEN trimStart(afterTitle(CHOOSE t \in Titles : matches(t)))
     ELSE s

\* s.replace(/s+/g, ' '), the statement the browser receives for
\* `normalized.replace(/\s+/g, ' ')`: the page script is the text of a
\* template literal, in which the escape \s stands for the letter s.  Every
\* run of the letter s becomes one space.
RECURSIVE replaceRuns(_)
replaceRuns(s) ==
  IF s = <<>> THEN <<>>
  ELSE IF Head(s) = "s"
       THEN IF Len(s) > 1 /\ s[2] = "s" THEN replaceRuns(Tail(s))
            ELSE <<" ">> \o replaceRuns(Tail(s))
       ELSE <<Head(s)>> \o replaceRuns(Tail(s))

LIMITED == <<"L", "I", "M", "I", "T", "E", "D">>
LTD == <<"L", "T", "D">>
PLC == <<"P", "L", "C">>
LLP == <<"L", "L", "P">>

\* The test that sends a name down the company branch.
looksLikeCompany(name) ==
  \/ includes(toUpperCase(name), LIMITED)
  \/ includes(toUpperCase(name), LTD)
  \/ includes(toUpperCase(name), PLC)
  \/ includes(toUpperCase(name), LLP)

normalizeCompany(name) ==
  LET n0 == toUpperCase(trim(name))
      n1 == splitJoin(n0, <<" ">> \o LIMITED, <<" ">> \o LTD)
      n2 == IF endsWith(n1, <<" ">> \o LIMITED)
            THEN SubSeq(n1, 1, Len(n1) - 8) \o <<" ">> \o LTD ELSE n1
      n3 == IF n2 = LIMITED THEN LTD ELSE n2
      n4 == splitJoin(n3, <<"P", ".", "L", ".", "C">>, PLC)
      n5 == splitJoin(n4, <<"L", ".", "L", ".", "P">>, LLP)
      n6 == splitJoin(n5, <<" ", "C", "O", "M", "P", "A", "N", "Y">>,
                      <<" ", "C", "O">>)
      n7 == SelectSeq(n6, LAMBDA c : c \in UpperLetters \cup Digits \cup {" "})
  IN joinSpace(SelectSeq(splitOn(n7, " "), LAMBDA w : Len(w) > 0))

normalizePerson(name) ==
  LET n0 == removeTitle(toUpperCase(trim(name)))
      parts == splitOn(n0, ",")
      n1 == IF includes(n0, <<",">>) /\ Len(parts) = 2
            THEN trim(parts[2]) \o <<" ">> \o trim(parts[1]) ELSE n0
      n2 == trim(replaceRuns(n1))
  IN joinSpace(sort(splitOn(n2, " ")))

normalizeName(name) ==
  IF name = <<>> THEN <<>>
  ELSE IF looksLikeCompany(name) THEN normalizeCompany(name)
  ELSE normalizePerson(name)

\* The raw names of the source records.
RawNames ==
  { <<"A", " ", "L", "T", "D">>,
    <<"A", " ", "L", "t", "d">>,
    <<"K", "h", "a", "n", ",", " ", "H", "a", "r", "o", "o", "n">>,
    <<"M", "r", " ", "H", "a", "r", "o", "o", "n", " ", "K", "h", "a", "n">>,
    <<"B", "o", "b">> }

\* Further names of the records of a screening list.
ListNames == { <<"d", "e", " ", "W", "i", "t", "t">>, <<"Z", " ", "L", "t", "d">> }

\* normalizeName on the raw names of the source records (each key is
\* computed once).
KeyTable == [n \in RawNames \cup ListNames |-> normalizeName(n)]
keyOf(name) ==
  IF name \in DOMAIN KeyTable THEN KeyTable[name] ELSE normalizeName(name)

\* ---------------------------------------------------------------- addPerson
\* Faulty variant: the Map is looked up by the entries' display names, not by the
\* keys they are stored under.
keyIndex_ByDisplayName(pm, key) ==
  IF \E i \in 1..Len(pm) : pm[i].name = key
  THEN CHOOSE i \in 1..Len(pm) : pm[i].name = key
  ELSE 0

\* personMap is the Map of the consolidator as the sequence of its values in
\* insertion order, each with the key it is stored under.
keyIndex(pm, key) ==
  IF \E i \in 1..Len(pm) : pm[i].key = key
  THEN CHOOSE i \in 1..Len(pm) : pm[i].key = key
  ELSE 0

\* personMap.has(normalizedName)
has(pm, key) == keyIndex(pm, key) # 0

\* Faulty variant: the right operand wins when it is present.
OrStr_RightFirst(a, b) == IF b # "" THEN b ELSE a

OrStr(a, b) == IF a # "" THEN a ELSE b        \* a || b on strings

\* The entry a first record creates.
newEntry(key, name, data) ==
  [key |-> key,
   name |-> trim(name),
   roles |-> IF data.role # "" THEN <<data.role>> ELSE <<>>,
   nationality |-> data.nationality,
   dob |-> data.dob,
   linkedEntities |-> IF data.linkedEntity # "" THEN <<data.linkedEntity>> ELSE <<>>,
   isCompany |-> data.isCompany,
   companyNumber |-> data.companyNumber]

\* Faulty variant: the two reasons to take the new name are tried independently
\* of each other.
mergedName_EitherReason(existing, name, data) ==
  IF \/ (data.nationality # "" \/ data.dob # "")
          /\ existing.nationality = "" /\ existing.dob = ""
     \/ ~includes(existing.name, <<",">>) /\ includes(name, <<",">>)
  THEN trim(name) ELSE existing.name

\* The display name after a merge.
mergedName(existing, name, data) ==
  IF data.nationality # "" \/ data.dob # ""
  THEN IF existing.nationality = "" /\ existing.dob = ""
       THEN trim(name) ELSE existing.name
  ELSE IF ~includes(existing.name, <<",">>) /\ includes(name, <<",">>)
       THEN trim(name) ELSE existing.name

\* Faulty variant: the role is pushed without looking for it in the list.
mergeRoles_NoLookup(roles, role) ==
  IF role # "" THEN Append(roles, role) ELSE roles

\* existing.roles after the merge of a record with the given role.
mergeRoles(roles, role) ==
  IF role # "" /\ role \notin Range(roles) THEN Append(roles, role) ELSE roles

\* Faulty variant: the linked entity goes to the front of the list.
mergeLinkedEntities_Unshift(linkedEntities, linkedEntity) ==
  IF linkedEntity # "" /\ linkedEntity \notin Range(linkedEntities)
  THEN <<linkedEntity>> \o linkedEntities ELSE linkedEntities

\* existing.linkedEntities after the merge of a record with the given
\* linkedEntity.
mergeLinkedEntities(linkedEntities, linkedEntity) ==
  IF linkedEntity # "" /\ linkedEntity \notin Range(linkedEntities)
  THEN Append(linkedEntities, linkedEntity) ELSE linkedEntities

\* The entry after a further record with its key has been merged into it.
mergeEntry(existing, name, data) ==
  [key |-> existing.key,
   name |-> mergedName(existing, name, data),
   roles |-> mergeRoles(existing.roles, data.role),
   nationality |-> OrStr(existing.nationality, data.nationality),
   dob |-> OrStr(existing.dob, data.dob),
   linkedEntities |-> mergeLinkedEntities(existing.linkedEntities, data.linkedEntity),
   isCompany |-> existing.isCompany \/ data.isCompany,
   companyNumber |-> OrStr(existing.companyNumber, data.companyNumber)]

addPerson(pm, name, data) ==
  LET normalizedName == keyOf(name)
      i == keyIndex(pm, normalizedName)
  IN IF has(pm, normalizedName)
     THEN [pm EXCEPT ![i] = mergeEntry(pm[i], name, data)]
     ELSE Append(pm, newEntry(normalizedName, name, data))

\* ------------------------------------------------------------------- inputs
\* What a node of an enumerated input tree can be: a company with a registry
\* number, and an individual with and without a recorded percentage (whole
\* percents).
Labels ==
  { [name |-> "X Ltd", cn |-> "C1", pct |-> 60],
    [name |-> "Bob", cn |-> "", pct |-> 50],
    [name |-> "Bob", cn |-> "", pct |-> 0] }

RECURSIVE SetToSeq(_)
SetToSeq(S) == IF S = {} THEN <<>> ELSE <<Min(S)>> \o SetToSeq(S \ {Min(S)})

\* The ordered trees with n nodes, each once: node i > 1 hangs below node
\* p[i] < i, numbered level by level.
ParentVectors(n) ==
  { p \in [2..n -> 1..n] :
      \A i \in 2..n : p[i] < i /\ (i > 2 => p[i - 1] <= p[i]) }

\* The tree below node j.  split puts the first child in `shareholders` and
\* the others in `children`; otherwise all are `shareholders`.
RECURSIVE MkTree(_, _, _, _, _)
MkTree(p, lab, n, split, j) ==
  LET ks == SetToSeq({i \in 2..n : p[i] = j})
      kids == [i \in 1..Len(ks) |-> MkTree(p, lab, n, split, ks[i])]
  IN Node(lab[j].name, lab[j].cn, lab[j].pct * PScale, 0, NoDepth,
          IF split /\ Len(kids) > 1 THEN <<kids[1]>> ELSE kids,
          IF split /\ Len(kids) > 1 THEN Tail(kids) ELSE <<>>)

\* Every product findUBOs computes below node is a whole number of units.
RECURSIVE Representable(_, _)
Representable(node, cum) ==
  \A i \in 1..Len(allChildren(node)) :
     LET kid == allChildren(node)[i]
     IN /\ (cum * kid.percentage) % (100 * PScale) = 0
        /\ Representable(kid, MulPct(cum, kid.percentage))

SmallTrees ==
  { t \in UNION { { MkTree(p, lab, n, split, 1) :
                      p \in ParentVectors(n), lab \in [1..n -> Labels],
                      split \in BOOLEAN } : n \in 1..MaxNodes } :
      Representable(t, 100 * PScale) }

Individual(pct) == Node("Bob", "", pct * PScale, 0, NoDepth, <<>>, <<>>)

\* A company without registry number that has k individuals as shareholders.
Holding(name, k) ==
  Node(name, "", 50 * PScale, 0, NoDepth, [i \in 1..k |-> Individual(50)], <<>>)

\* Fan-shaped trees: the target company held by a wide holding (k
\* shareholders) and by a narrow one (m shareholders), or directly by k
\* individuals.
FanTrees ==
  { Node("X Ltd", "C1", 0, 0, NoDepth,
         << Holding("Y Ltd", k), Holding("Z Ltd", m) >>, <<>>) :
      k \in 1..MaxFan, m \in 0..MaxSide }
  \cup { Node("X Ltd", "C1", 0, 0, NoDepth,
              [i \in 1..k |-> Individual(50)], <<>>) : k \in 1..MaxFan }

\* Percentages outside [0,100], as a backend document may carry them.
MalformedPercentages == { 0 - 10, 150 }

\* The target company held by Bob, or by a holding that Bob holds 50% of,
\* the direct shareholder carrying a percentage outside [0,100].
MalformedTrees ==
  { Node("X Ltd", "C1", 0, 0, NoDepth, << Individual(p) >>, <<>>) : p \in MalformedPercentages }
  \cup { Node("X Ltd", "C1", 0, 0, NoDepth, << Node("Y Ltd", "", p * PScale, 0, NoDepth, << Individual(50) >>, <<>>) >>, <<>>) : p \in MalformedPercentages }

InputTrees == SmallTrees \cup FanTrees \cup MalformedTrees

\* The names normalizeName is applied to on its own: the words of a name are
\* joined by single spaces.
NameWords ==
  { <<"H", "a", "r", "o", "o", "n">>, <<"K", "h", "a", "n", ",">>, <<"L", "o", "r", "d">>,
    <<"D", "r", ".">>, <<"A", "l">> }

GivenNames == { <<"J", "o", "h", "n">>, <<"H", "a", "r", "o", "o", "n">> }
FamilyNames == { <<"S", "m", "i", "t", "h">>, <<"K", "h", "a", "n">>, <<"L", "o", "r", "d">> }

\* A leading title as it is written: upper case, with a period, mixed case.
TitleForms ==
  Titles \cup { t \o <<".">> : t \in Titles } \cup { <<"M", "r">>, <<"d", "r", ".">>, <<"P", "r", "o", "f">> }

CompanyStems ==
  { <<"A">>,
    <<"A", "c", "m", "e", " ", "H", "o", "l", "d", "i", "n", "g", "s">>,
    <<"X", " ", "&", " ", "Y", " ", "C", "o", "m", "p", "a", "n", "y">> }

LimitedForms == { LIMITED, <<"L", "i", "m", "i", "t", "e", "d">>, <<"l", "i", "m", "i", "t", "e", "d">> }
LtdForms == { LTD, <<"L", "t", "d">>, <<"l", "t", "d">> }

\* The sequences of k different elements of S.
RECURSIVE Arrangements(_, _)
Arrangements(S, k) ==
  IF k = 0 THEN {<<>>}
  ELSE UNION { { <<w>> \o a : a \in Arrangements(S \ {w}, k - 1) } : w \in S }

WordNames ==
  { joinSpace(a) : a \in UNION { Arrangements(NameWords, k) : k \in 1..MaxWords } }

PlainNames == { joinSpace(<<g, f>>) : g \in GivenNames, f \in FamilyNames }
CommaNames == { f \o <<",", " ">> \o g : g \in GivenNames, f \in FamilyNames }
TitledNames ==
  { joinSpace(<<t, n>>) : t \in TitleForms, n \in PlainNames \cup CommaNames }
CompanyNames ==
  { joinSpace(<<c, x>>) : c \in CompanyStems, x \in LimitedForms \cup LtdForms }

KenningLimited == <<"U", "N", "I", "T", "E", "D", " ", "K", "E", "N", "N", "I", "N", "G", " ", "R", "E", "N", "T", "A", "L", " ", "G", "R", "O", "U", "P", " ", "L", "I", "M", "I", "T", "E", "D">>
SmithCommaJohn == <<"S", "M", "I", "T", "H", ",", " ", "J", "o", "h", "n">>
MrJohnSmith == <<"M", "r", " ", "J", "o", "h", "n", " ", "S", "m", "i", "t", "h">>

AcmePLC == <<"A", "C", "M", "E", " ", "P", "L", "C">>
AcmeDottedPLC == <<"A", "C", "M", "E", " ", "P", ".", "L", ".", "C">>
AcmeLLP == <<"A", "C", "M", "E", " ", "L", "L", "P">>
AcmeDottedLLP == <<"A", "C", "M", "E", " ", "L", ".", "L", ".", "P">>
JohnSmith == <<"J", "O", "H", "N", " ", "S", "M", "I", "T", "H">>
JohnTwoSpacesSmith == <<"J", "O", "H", "N", " ", " ", "S", "M", "I", "T", "H">>
ALtd == <<"A", " ", "L", "T", "D">>
ATwoSpacesLtd == <<"A", " ", " ", "L", "T", "D">>

\* Names whose legal suffix is spelt with dots, and their undotted spellings.
SuffixNames == { AcmePLC, AcmeDottedPLC, AcmeLLP, AcmeDottedLLP }

\* Names that differ only in the amount of whitespace between two words.
SpacedNames == { JohnSmith, JohnTwoSpacesSmith, ALtd, ATwoSpacesLtd }

NameInputs ==
  WordNames \cup PlainNames \cup CommaNames \cup TitledNames \cup CompanyNames
    \cup { KenningLimited, SmithCommaJohn, MrJohnSmith }
    \cup SuffixNames \cup SpacedNames

\* The records addPerson is called with.
Record(role, nationality, dob, linkedEntity, isCompany, companyNumber) ==
  [role |-> role, nationality |-> nationality, dob |-> dob,
   linkedEntity |-> linkedEntity, isCompany |-> isCompany,
   companyNumber |-> companyNumber]

Records ==
  { Record("Parent", "", "", "T Ltd", TRUE, "C1"),
    Record("Ultimate Parent", "", "", "N/A", TRUE, "C2"),
    Record("Director", "British", "1980-01", "T Ltd", FALSE, ""),
    Record("Secretary", "Irish", "", "T Ltd", FALSE, ""),
    Record("", "", "", "T Ltd", FALSE, "") }

\* ------------------------------------------------- the consolidation pass
\* targetCompanyName of the item on the page.
targetCompanyName == "T Ltd"

\* Faulty variant: the entities are processed before the other lists.
ListOrder_EntityFirst ==
  <<"entity", "ownership_chain", "governance_and_control", "ubos", "trusts">>

\* The lists of item.screening_list in the order the script walks them.
ListOrder ==
  <<"ownership_chain", "governance_and_control", "ubos", "trusts", "entity">>

\* Faulty variant: every record of every list is passed on.
isProcessed_All(list, entry) == TRUE

\* The test a record of the list has to pass to reach addPerson.
isProcessed(list, entry) ==
  IF list = "ownership_chain" THEN entry.is_company ELSE TRUE

\* The data object the forEach callback of the list builds from a record.
dataOf(list, entry) ==
  CASE list = "ownership_chain" ->
         Record(entry.role, "", "", targetCompanyName, TRUE, entry.company_number)
    [] list = "governance_and_control" ->
         Record(entry.role, entry.nationality, entry.dob, targetCompanyName, FALSE, "")
    [] list \in {"ubos", "trusts"} ->
         Record(entry.role, "", "", targetCompanyName, FALSE, "")
    [] list = "entity" ->
         Record(entry.type, "", "", "N/A", TRUE, entry.company_number)

\* The position of the pass: record idx of list ListOrder[list]; list
\* Len(ListOrder) + 1 when all lists are done and the Map is to be sorted,
\* Len(ListOrder) + 2 when consolidatedList exists.
RECURSIVE firstRecordFrom(_, _)
firstRecordFrom(sl, k) ==
  IF k > Len(ListOrder) THEN [list |-> Len(ListOrder) + 1, idx |-> 1]
  ELSE IF Len(sl[ListOrder[k]]) > 0 THEN [list |-> k, idx |-> 1]
  ELSE firstRecordFrom(sl, k + 1)

nextRecord(sl, c) ==
  IF c.idx < Len(sl[ListOrder[c.list]])
  THEN [list |-> c.list, idx |-> c.idx + 1]
  ELSE firstRecordFrom(sl, c.list + 1)

\* The characters in the order of the root collation: white space,
\* punctuation, digits, letters; the two cases of a letter together.
Collation ==
  << " ", ",", ".", "&",
     "0", "1", "2", "3", "4", "5", "6", "7", "8", "9",
     "A", "B", "C", "D", "E", "F", "G", "H", "I", "J", "K", "L", "M",
     "N", "O", "P", "Q", "R", "S", "T", "U", "V", "W", "X", "Y", "Z" >>

primaryWeight(c) ==
  CHOOSE i \in 1..Len(Collation) : Collation[i] = toUpperChar(c)

\* The first level of a.localeCompare(b): the names letter by letter without
\* regard to case, a proper prefix first.
RECURSIVE primaryCompare(_, _)
primaryCompare(a, b) ==
  IF a = <<>> /\ b = <<>> THEN 0
  ELSE IF a = <<>> THEN 0 - 1
  ELSE IF b = <<>> THEN 1
  ELSE IF primaryWeight(Head(a)) < primaryWeight(Head(b)) THEN 0 - 1
  ELSE IF primaryWeight(Head(a)) > primaryWeight(Head(b)) THEN 1
  ELSE primaryCompare(Tail(a), Tail(b))

\* Its last level, for names equal on the first: at the first difference the
\* lower-case letter comes first.
RECURSIVE caseCompare(_, _)
caseCompare(a, b) ==
  IF a = <<>> \/ b = <<>> THEN 0
  ELSE IF Head(a) = Head(b) THEN caseCompare(Tail(a), Tail(b))
  ELSE IF Head(a) \in LowerLetters THEN 0 - 1 ELSE 1

\* a.localeCompare(b)
localeCompare(a, b) ==
  IF primaryCompare(a, b) # 0 THEN primaryCompare(a, b) ELSE caseCompare(a, b)

\* Faulty variant: the entries are compared by name only.
compareEntries_NameOnly(a, b) == localeCompare(a.name, b.name)

\* The comparator of the final sort.
compareEntries(a, b) ==
  IF a.isCompany # b.isCompany
  THEN IF a.isCompany THEN 0 - 1 ELSE 1
  ELSE localeCompare(a.name, b.name)

\* Array.prototype.sort(compareEntries): a stable sort.
RECURSIVE insertEntry(_, _)
insertEntry(sorted, e) ==
  IF sorted = <<>> THEN <<e>>
  ELSE IF compareEntries(e, Head(sorted)) < 0 THEN <<e>> \o sorted
  ELSE <<Head(sorted)>> \o insertEntry(Tail(sorted), e)

RECURSIVE sortEntries(_)
sortEntries(entries) ==
  IF entries = <<>> THEN <<>>
  ELSE insertEntry(sortEntries(SubSeq(entries, 1, Len(entries) - 1)),
                   entries[Len(entries)])

\* Array.from(personMap.values()).sort(...)
consolidate(pm) == sortEntries(pm)

\* The records of the lists of item.screening_list.
OwnershipChainEntries ==
  { [name |-> <<"A", " ", "L", "T", "D">>, role |-> "Parent", is_company |-> TRUE, company_number |-> "C1"],
    [name |-> <<"A", " ", "L", "t", "d">>, role |-> "Shareholder", is_company |-> FALSE, company_number |-> "C2"],
    [name |-> <<"K", "h", "a", "n", ",", " ", "H", "a", "r", "o", "o", "n">>, role |-> "Shareholder", is_company |-> FALSE, company_number |-> ""],
    [name |-> <<"B", "o", "b">>, role |-> "Shareholder", is_company |-> FALSE, company_number |-> ""] }

GovernanceEntries ==
  { [name |-> <<"B", "o", "b">>, role |-> "Director", nationality |-> "British", dob |-> ""],
    [name |-> <<"M", "r", " ", "H", "a", "r", "o", "o", "n", " ", "K", "h", "a", "n">>, role |-> "Director", nationality |-> "British", dob |-> "1980-01"],
    [name |-> <<"K", "h", "a", "n", ",", " ", "H", "a", "r", "o", "o", "n">>, role |-> "Secretary", nationality |-> "", dob |-> ""] }

UboEntries ==
  { [name |-> <<"B", "o", "b">>, role |-> "UBO"],
    [name |-> <<"d", "e", " ", "W", "i", "t", "t">>, role |-> "UBO"],
    [name |-> <<"K", "h", "a", "n", ",", " ", "H", "a", "r", "o", "o", "n">>, role |-> "Director"] }

TrustEntries == { [name |-> <<"B", "o", "b">>, role |-> "Trustee"] }

EntityEntries ==
  { [name |-> <<"A", " ", "L", "t", "d">>, type |-> "Corporate", company_number |-> "C2"],
    [name |-> <<"Z", " ", "L", "t", "d">>, type |-> "Corporate", company_number |-> ""] }

\* The screening lists with at most MaxEntries records in all; an absent
\* list is an empty one.
ScreeningLists ==
  UNION { { [ownership_chain |-> a, governance_and_control |-> b, ubos |-> c,
             trusts |-> d, entity |-> e] :
              a \in [1..l[1] -> OwnershipChainEntries],
              b \in [1..l[2] -> GovernanceEntries],
              c \in [1..l[3] -> UboEntries],
              d \in [1..l[4] -> TrustEntries],
              e \in [1..l[5] -> EntityEntries] } :
          l \in { v \in [1..5 -> 0..MaxEntries] :
                    v[1] + v[2] + v[3] + v[4] + v[5] <= MaxEntries } }

NoLists ==
  [ownership_chain |-> <<>>, governance_and_control |-> <<>>, ubos |-> <<>>,
   trusts |-> <<>>, entity |-> <<>>]

\* -------------------------------------------------------------------- state
VARIABLES
  phase,                \* "loading" until loadItemDetails has run, then "loaded"
  ownership_tree,       \* item.ownership_tree of the fetched document: <<>> or <<tree>>
  globalOwnershipTree,  \* the page global: <<>> (null) or <<tree>>
  isInverted,           \* the `inverted` argument of the latest layout call
  workingTree,          \* workingTree of the latest layout call: <<>> or <<tree>>
  nodes,                \* the node array of the latest layout call, as rendered
  links,                \* its link array
  reserved,             \* the childWidths arrays of the latest layout call
  visits,               \* the traverseTree calls of the latest layout call
  xOffset,              \* the shift createOwnershipSVG applied to its nodes
  personMap,            \* the consolidator's Map
  calls,                \* the addPerson calls made so far: <<name, data>>, in order
  rawName,              \* the argument of a normalizeName call
  nameKey,              \* what the call returned: <<>> (not yet called) or <<key>>
  screening_list,       \* item.screening_list of the fetched document
  cursor,               \* the position of the consolidation pass
  consolidatedList,     \* the sorted array the pass ends with
  request,              \* the proxy route a request came in for ("" when none)
  hasFile,              \* the upload form carries a `file` field
  backend,              \* how the backend answers the forwarded request
  routeResponse,        \* <<>> or <<the route's response>>
  currentZoom,          \* currentZoom, in tenths
  lastZoom,             \* the zoom function called last ("" when none)
  zoomCount,            \* the number of zoom calls made so far
  gTransform,           \* <<>> (no svg in the container) or <<scale of its g>>
  itemResponse,         \* how GET /api/item/:id ends: "ok" or "failed"
  item_shareholders,    \* the length of item.shareholders (0: absent or empty)
  enrich_status,        \* item.enrich_status
  ownershipSection,     \* what the page has for the ownership card
  timers,               \* the pending setTimeout callbacks, each with its svg
  displayed,            \* <<>> or <<the diagram in ownership-tree-container>>
  stage,                \* the function a layout call is in, call by call
  stack,                \* its call stack: one frame per active call
  seenCompanies,        \* the Set of dedup keys of that call
  placed,               \* the nodes it has pushed so far: name and x
  skips                 \* the number of traverseTree calls it has skipped

layoutVars == <<phase, ownership_tree, globalOwnershipTree, isInverted,
                workingTree, nodes, links, reserved, visits, xOffset>>
rosterVars == <<personMap, calls>>
nameVars == <<rawName, nameKey>>
screenVars == <<screening_list, cursor, consolidatedList>>
proxyVars == <<request, hasFile, backend, routeResponse>>
zoomVars == <<currentZoom, lastZoom, zoomCount, gTransform>>
pageVars == <<itemResponse, item_shareholders, enrich_status, ownershipSection, timers, displayed>>
walkVars == <<stage, stack, seenCompanies, placed, skips>>
vars == <<layoutVars, rosterVars, nameVars, screenVars, proxyVars, zoomVars, pageVars, walkVars>>

NoLayout ==
  /\ ownership_tree = <<>>
  /\ globalOwnershipTree = <<>>
  /\ isInverted = FALSE
  /\ workingTree = <<>>
  /\ nodes = <<>>
  /\ links = <<>>
  /\ reserved = {}
  /\ visits = <<>>
  /\ xOffset = 0

NoRoster == personMap = <<>> /\ calls = <<>>

NoName == rawName = <<>> /\ nameKey = <<>>

NoScreening ==
  /\ screening_list = NoLists
  /\ cursor = [list |-> 0, idx |-> 0]
  /\ consolidatedList = <<>>

NoProxy ==
  /\ request = ""
  /\ hasFile = FALSE
  /\ backend = [reachable |-> FALSE, status |-> 0, json |-> FALSE]
  /\ routeResponse = <<>>

NoZoom ==
  /\ currentZoom = 1 * ZoomScale
  /\ lastZoom = ""
  /\ zoomCount = 0
  /\ gTransform = <<>>

NoPage ==
  /\ itemResponse = "ok"
  /\ item_shareholders = 0
  /\ enrich_status = ""
  /\ ownershipSection = "none"
  /\ timers = <<>>
  /\ displayed = <<>>

NoWalk ==
  /\ stage = "idle"
  /\ stack = <<>>
  /\ seenCompanies = {}
  /\ placed = <<>>
  /\ skips = 0

\* The state of the proxy routes, of the zoom controls, of the document and
\* of the call stack, which the specifications below leave as the script
\* start leaves it.
restVars == <<proxyVars, zoomVars, pageVars, walkVars>>
NoRest == NoProxy /\ NoZoom /\ NoPage /\ NoWalk

\* ------------------------------------------------- the ownership-tree page
InitLayout ==
  /\ phase = "loading"
  /\ ownership_tree \in {<<>>} \cup { <<t>> : t \in InputTrees }
  /\ globalOwnershipTree = <<>>
  /\ isInverted = FALSE
  /\ workingTree = <<>>
  /\ nodes = <<>>
  /\ links = <<>>
  /\ reserved = {}
  /\ visits = <<>>
  /\ xOffset = 0
  /\ NoRoster
  /\ NoName
  /\ NoScreening
  /\ NoRest

\* The effect of one buildRecursiveOwnershipTree(tree, 0, inverted) call on
\* globalOwnershipTree, the object the call is given.
Build(tree, inverted) ==
  \E r \in {buildRecursiveOwnershipTree(tree, inverted)} :
     /\ globalOwnershipTree' = <<r.input>>
     /\ isInverted' = inverted
     /\ workingTree' = <<r.workingTree>>
     /\ nodes' = r.nodes
     /\ links' = r.links
     /\ reserved' = r.reserved
     /\ visits' = r.visits
     /\ xOffset' = r.xOffset

\* loadItemDetails, the ownership-tree part: the tree is laid out (normal
\* view) only when it has at least one entry in `shareholders`.
LoadItemDetails ==
  /\ phase = "loading"
  /\ phase' = "loaded"
  /\ UNCHANGED <<ownership_tree, rosterVars, nameVars, screenVars>>
  /\ UNCHANGED restVars
  /\ IF ownership_tree # <<>> /\ Len(ownership_tree[1].shareholders) > 0
     THEN Build(ownership_tree[1], FALSE)
     ELSE UNCHANGED <<globalOwnershipTree, isInverted, workingTree, nodes,
                      links, reserved, visits, xOffset>>

\* toggleTreeView with the checkbox in state `checked`.
ToggleTreeView(checked) ==
  /\ phase = "loaded"
  /\ UNCHANGED <<phase, ownership_tree, rosterVars, nameVars, screenVars>>
  /\ UNCHANGED restVars
  /\ IF globalOwnershipTree # <<>>
     THEN Build(globalOwnershipTree[1], checked)
     ELSE UNCHANGED <<globalOwnershipTree, isInverted, workingTree, nodes, links,
                      reserved, visits, xOffset>>

NextLayout ==
  \/ LoadItemDetails
  \/ \E checked \in BOOLEAN : ToggleTreeView(checked)

SpecLayout == InitLayout /\ [][NextLayout]_vars

\* ---------------------------------------------------------- the consolidator
InitRoster ==
  /\ phase = "loading"
  /\ NoLayout
  /\ NoRoster
  /\ NoName
  /\ NoScreening
  /\ NoRest

\* One addPerson(name, data) call of the accumulation pass.
AddPerson(name, data) ==
  /\ Len(calls) < MaxCalls
  /\ personMap' = addPerson(personMap, name, data)
  /\ calls' = Append(calls, <<name, data>>)
  /\ UNCHANGED <<layoutVars, nameVars, screenVars>>
  /\ UNCHANGED restVars

NextRoster == \E name \in RawNames, data \in Records : AddPerson(name, data)

SpecRoster == InitRoster /\ [][NextRoster]_vars

\* ------------------------------------------------- normalizeName on its own
InitNames ==
  /\ phase = "loading"
  /\ NoLayout
  /\ NoRoster
  /\ rawName \in NameInputs
  /\ nameKey = <<>>
  /\ NoScreening
  /\ NoRest

\* One normalizeName(rawName) call.
NormalizeName ==
  /\ nameKey = <<>>
  /\ nameKey' = <<normalizeName(rawName)>>
  /\ UNCHANGED <<layoutVars, rosterVars, rawName, screenVars>>
  /\ UNCHANGED restVars

NextNames == NormalizeName

SpecNames == InitNames /\ [][NextNames]_vars

\* ------------------------------------------- the consolidated screening list
InitScreening ==
  /\ phase = "loading"
  /\ NoLayout
  /\ NoRoster
  /\ NoName
  /\ screening_list \in ScreeningLists
  /\ cursor = firstRecordFrom(screening_list, 1)
  /\ consolidatedList = <<>>
  /\ NoRest

\* One run of the forEach callback of the given list, on the record under
\* the cursor.
Process(list) ==
  /\ cursor.list \in 1..Len(ListOrder)
  /\ ListOrder[cursor.list] = list
  /\ LET entry == screening_list[list][cursor.idx]
     IN IF isProcessed(list, entry)
        THEN /\ personMap' = addPerson(personMap, entry.name, dataOf(list, entry))
             /\ calls' = Append(calls, <<entry.name, dataOf(list, entry)>>)
        ELSE UNCHANGED <<personMap, calls>>
  /\ cursor' = nextRecord(screening_list, cursor)
  /\ UNCHANGED <<layoutVars, nameVars, screening_list, consolidatedList>>
  /\ UNCHANGED restVars

ProcessOwnershipChain == Process("ownership_chain")
ProcessGovernanceAndControl == Process("governance_and_control")
ProcessUbos == Process("ubos")
ProcessTrusts == Process("trusts")
ProcessEntity == Process("entity")

\* The Map is turned into the sorted array.
SortConsolidatedList ==
  /\ cursor.list = Len(ListOrder) + 1
  /\ consolidatedList' = consolidate(personMap)
  /\ cursor' = [list |-> Len(ListOrder) + 2, idx |-> 1]
  /\ UNCHANGED <<layoutVars, rosterVars, nameVars, screening_list>>
  /\ UNCHANGED restVars

NextScreening ==
  \/ ProcessOwnershipChain
  \/ ProcessGovernanceAndControl
  \/ ProcessUbos
  \/ ProcessTrusts
  \/ ProcessEntity
  \/ SortConsolidatedList

SpecScreening == InitScreening /\ [][NextScreening]_vars

\* ------------------------------------------------------------ the item page
\* The ownership trees of the documents the page is loaded with: the target
\* company alone, held by k individuals, or held by a holding of k
\* individuals.
PageTrees ==
  { Node("X Ltd", "C1", 0, 0, NoDepth, <<>>, <<>>) }
  \cup { Node("X Ltd", "C1", 0, 0, NoDepth, [i \in 1..k |-> Individual(50)], <<>>) : k \in 1..MaxOwners }
  \cup { Node("X Ltd", "C1", 0, 0, NoDepth, << Holding("Y Ltd", k) >>, <<>>) : k \in 1..MaxOwners }

EnrichStatuses == { "done", "running", "failed" }

\* Faulty variant: the message is shown whenever there is no shareholder.
ownershipSectionOf_AnyStatus(count, status) ==
  IF count > 0 THEN "diagram" ELSE "message"

\* The ownership card of the template: the card with ownership-tree-container
\* and the zoom buttons when item.shareholders is non-empty, otherwise the
\* card with 'No shareholder information found in CS01/AR01/IN01 filings.'
\* when enrich_status is 'done', otherwise nothing.
ownershipSectionOf(count, status) ==
  IF count > 0 THEN "diagram" ELSE IF status = "done" THEN "message" ELSE "none"

\* The svg a layout call hands to its timer.
Diagram(r) == [nodes |-> r.nodes, links |-> r.links]

InitPage ==
  /\ phase = "loading"
  /\ ownership_tree \in {<<>>} \cup { <<t>> : t \in PageTrees }
  /\ globalOwnershipTree = <<>>
  /\ isInverted = FALSE
  /\ workingTree = <<>>
  /\ nodes = <<>>
  /\ links = <<>>
  /\ reserved = {}
  /\ visits = <<>>
  /\ xOffset = 0
  /\ NoRoster
  /\ NoName
  /\ NoScreening
  /\ NoProxy
  /\ NoZoom
  /\ NoWalk
  /\ itemResponse \in {"ok", "failed"}
  /\ item_shareholders \in 0..1
  /\ enrich_status \in EnrichStatuses
  /\ ownershipSection = "none"
  /\ timers = <<>>
  /\ displayed = <<>>

\* buildRecursiveOwnershipTree(tree, 0, inverted) with its last statement:
\* setTimeout(() => {...}, 100) with the svg of the call.
BuildAndSchedule(tree, inverted) ==
  /\ Build(tree, inverted)
  /\ timers' = Append(timers, Diagram(buildRecursiveOwnershipTree(tree, inverted)))

\* loadItemDetails as a whole.  A failed request goes to the catch block,
\* which shows #error.  Otherwise the tree is laid out when it has a
\* shareholder, and the template is rendered into #content.
ShowItemDetails ==
  /\ phase = "loading"
  /\ UNCHANGED <<ownership_tree, rosterVars, nameVars, screenVars, proxyVars, zoomVars, walkVars>>
  /\ UNCHANGED <<itemResponse, item_shareholders, enrich_status, displayed>>
  /\ IF itemResponse = "failed"
     THEN /\ phase' = "error"
          /\ UNCHANGED <<globalOwnershipTree, isInverted, workingTree, nodes, links, reserved, visits, xOffset, ownershipSection, timers>>
     ELSE /\ phase' = "loaded"
          /\ ownershipSection' = ownershipSectionOf(item_shareholders, enrich_status)
          /\ IF ownership_tree # <<>> /\ Len(ownership_tree[1].shareholders) > 0
             THEN BuildAndSchedule(ownership_tree[1], FALSE)
             ELSE UNCHANGED <<globalOwnershipTree, isInverted, workingTree, nodes, links, reserved, visits, xOffset, timers>>

\* toggleTreeView with the checkbox in state `checked`, in the document.
ToggleView(checked) ==
  /\ phase = "loaded"
  /\ Len(timers) < MaxTimers
  /\ UNCHANGED <<phase, ownership_tree, rosterVars, nameVars, screenVars, proxyVars, zoomVars, walkVars>>
  /\ UNCHANGED <<itemResponse, item_shareholders, enrich_status, ownershipSection, displayed>>
  /\ IF globalOwnershipTree # <<>>
     THEN BuildAndSchedule(globalOwnershipTree[1], checked)
     ELSE UNCHANGED <<globalOwnershipTree, isInverted, workingTree, nodes, links, reserved, visits, xOffset, timers>>

\* The oldest pending timer fires: the svg goes into ownership-tree-container
\* if the document has that element; the new svg has its g at scale(1).
TimerFires ==
  /\ timers # <<>>
  /\ timers' = Tail(timers)
  /\ IF ownershipSection = "diagram"
     THEN displayed' = <<Head(timers)>> /\ gTransform' = <<1 * ZoomScale>>
     ELSE UNCHANGED <<displayed, gTransform>>
  /\ UNCHANGED <<layoutVars, rosterVars, nameVars, screenVars, proxyVars, walkVars>>
  /\ UNCHANGED <<currentZoom, lastZoom, zoomCount>>
  /\ UNCHANGED <<itemResponse, item_shareholders, enrich_status, ownershipSection>>

NextPage ==
  \/ ShowItemDetails
  \/ \E checked \in BOOLEAN : ToggleView(checked)
  \/ TimerFires

\* The browser runs a timer callback once its delay has passed.
SpecPage == InitPage /\ [][NextPage]_vars /\ WF_vars(TimerFires)

\* ------------------------------------------- a layout call, call by call
\* The trees the call is followed on: a company with a registry number and
\* an individual without, in every arrangement of up to MaxWalkNodes nodes,
\* so that a company recurs below itself and below several parents.
WalkLabels ==
  { [name |-> "X Ltd", cn |-> "C1", pct |-> 60], [name |-> "Bob", cn |-> "", pct |-> 50] }

WalkTrees ==
  UNION { { MkTree(p, lab, n, split, 1) :
              p \in ParentVectors(n), lab \in [1..n -> WalkLabels], split \in BOOLEAN } :
          n \in 1..MaxWalkNodes }

\* The frame of one call: its node argument, the index of the child the
\* forEach is at (0: the call has just been entered), and for traverseTree
\* its depth, x, y and the running currentX.
Frame(node, depth, x, y) ==
  [node |-> node, idx |-> 0, depth |-> depth, x |-> x, y |-> y, currentX |-> 0]

Top == stack[Len(stack)]
Pop == SubSeq(stack, 1, Len(stack) - 1)

\* The top frame moves on to its next child, whose call is entered.
PushChild(child, depth, x, y, width) ==
  Append(Pop, [Top EXCEPT !.idx = @ + 1, !.currentX = @ + width])
    \o << Frame(child, depth, x, y) >>

\* The children a traverseTree call goes through: node.children for the
\* virtual root, shareholders then children otherwise.
IsVirtualRoot(f) == f.depth = 0 - 1 /\ f.node.name = VirtualRootName
childrenOf(f) == IF IsVirtualRoot(f) THEN f.node.children ELSE allChildren(f.node)

\* Faulty variant: no key counts as seen.
isDuplicate_Never(nodeKey, seen) == FALSE

\* seenCompanies.has(nodeKey)
isDuplicate(nodeKey, seen) == nodeKey \in seen

\* buildRecursiveOwnershipTree(tree, 0, inverted) has been called: it is in
\* findUBOs(tree, [], 100) when inverted, in getSubtreeWidth(workingTree)
\* otherwise.
InitWalk ==
  /\ phase = "loaded"
  /\ ownership_tree \in { <<t>> : t \in WalkTrees }
  /\ globalOwnershipTree = ownership_tree
  /\ isInverted \in BOOLEAN
  /\ workingTree = IF isInverted THEN <<>> ELSE ownership_tree
  /\ nodes = <<>>
  /\ links = <<>>
  /\ reserved = {}
  /\ visits = <<>>
  /\ xOffset = 0
  /\ NoRoster
  /\ NoName
  /\ NoScreening
  /\ NoProxy
  /\ NoZoom
  /\ NoPage
  /\ stage = IF isInverted THEN "findUBOs" ELSE "getSubtreeWidth"
  /\ stack = << Frame(ownership_tree[1], 0, 0, 0) >>
  /\ seenCompanies = {}
  /\ placed = <<>>
  /\ skips = 0

\* The first traverseTree call: traverseTree(workingTree, startDepth,
\* treeWidth / 2, 50, null, 100).
FirstTraverse(working) ==
  Frame(working, IF isInverted /\ working.depth = 0 - 1 THEN 0 - 1 ELSE 0,
        getSubtreeWidth(working) \div 2, StartY)

\* One step of findUBOs: a leaf pushes its entry and returns, another node
\* calls findUBOs for its next child or returns after the last.  When the
\* outermost call returns, the chains are built and getSubtreeWidth is
\* called for the inverted tree.
FindUBOsStep ==
  /\ stage = "findUBOs"
  /\ stack # <<>>
  /\ IF Top.idx < Len(allChildren(Top.node))
     THEN /\ stack' = PushChild(allChildren(Top.node)[Top.idx + 1], 0, 0, 0, 0)
          /\ UNCHANGED <<stage, workingTree>>
     ELSE IF Len(stack) > 1
     THEN /\ stack' = Pop
          /\ UNCHANGED <<stage, workingTree>>
     ELSE /\ workingTree' = << invertOwnershipTree(ownership_tree[1]) >>
          /\ stage' = "getSubtreeWidth"
          /\ stack' = << Frame(invertOwnershipTree(ownership_tree[1]), 0, 0, 0) >>
  /\ UNCHANGED <<phase, ownership_tree, globalOwnershipTree, isInverted, nodes, links, reserved, visits, xOffset>>
  /\ UNCHANGED <<rosterVars, nameVars, screenVars, proxyVars, zoomVars, pageVars, seenCompanies, placed, skips>>

\* One step of getSubtreeWidth(workingTree): a node without children, or
\* with more than six, returns at once; another calls getSubtreeWidth for its
\* next child or returns after the last.  When the outermost call returns,
\* traverseTree is called.
GetSubtreeWidthStep ==
  /\ stage = "getSubtreeWidth"
  /\ stack # <<>>
  /\ IF Len(allChildren(Top.node)) <= CompactThreshold /\ Top.idx < Len(allChildren(Top.node))
     THEN /\ stack' = PushChild(allChildren(Top.node)[Top.idx + 1], 0, 0, 0, 0)
          /\ UNCHANGED stage
     ELSE IF Len(stack) > 1
     THEN /\ stack' = Pop
          /\ UNCHANGED stage
     ELSE /\ stage' = "traverseTree"
          /\ stack' = << FirstTraverse(workingTree[1]) >>
  /\ UNCHANGED <<layoutVars, rosterVars, nameVars, screenVars, proxyVars, zoomVars, pageVars, seenCompanies, placed, skips>>

\* One step of traverseTree.  On entry the virtual root goes straight to its
\* children; another node returns if its key is in seenCompanies, else the
\* key is added and the node pushed.  Then the call runs traverseTree for its
\* next child, centred in the width reserved for it, or returns after the
\* last; the layout call is over when the outermost call returns.
TraverseTreeStep ==
  /\ stage = "traverseTree"
  /\ stack # <<>>
  /\ LET f == Top
         kids == childrenOf(f)
         childWidths == childWidthsOf(kids)
         nodeKey == nodeKeyOf(f.node, f.x, f.y)
         entered == [f EXCEPT !.idx = 1, !.currentX = f.x - SumSeq(childWidths) \div 2]
     IN IF f.idx = 0 /\ IsVirtualRoot(f)
        THEN /\ stack' = Append(Pop, entered)
             /\ UNCHANGED <<stage, seenCompanies, placed, skips>>
        ELSE IF f.idx = 0 /\ isDuplicate(nodeKey, seenCompanies)
        THEN /\ stack' = Pop
             /\ skips' = skips + 1
             /\ stage' = IF Len(stack) > 1 THEN stage ELSE "done"
             /\ UNCHANGED <<seenCompanies, placed>>
        ELSE IF f.idx = 0
        THEN /\ stack' = Append(Pop, entered)
             /\ seenCompanies' = seenCompanies \cup {nodeKey}
             /\ placed' = Append(placed, [name |-> f.node.name, x |-> f.x])
             /\ UNCHANGED <<stage, skips>>
        ELSE IF f.idx <= Len(kids)
        THEN /\ stack' = PushChild(kids[f.idx], IF IsVirtualRoot(f) THEN 0 ELSE childDepthOf(f.depth), f.currentX + childWidths[f.idx] \div 2, f.y + LevelHeight, childWidths[f.idx])
             /\ UNCHANGED <<stage, seenCompanies, placed, skips>>
        ELSE /\ stack' = Pop
             /\ stage' = IF Len(stack) > 1 THEN stage ELSE "done"
             /\ UNCHANGED <<seenCompanies, placed, skips>>
  /\ UNCHANGED <<layoutVars, rosterVars, nameVars, screenVars, proxyVars, zoomVars, pageVars>>

NextWalk ==
  \/ FindUBOsStep
  \/ GetSubtreeWidthStep
  \/ TraverseTreeStep

\* The script runs to completion: a call that can take a step takes it.
SpecWalk == InitWalk /\ [][NextWalk]_vars /\ WF_vars(NextWalk)

\* --------------------------------------------------------- the proxy routes
\* The routes that forward a request to the backend.
Routes ==
  { "/api/health", "/api/batch/upload", "/api/batch/:id/status", "/api/batches",
    "/api/item/:id", "/api/item/:id/screening-export.csv", "/api/batch/:id/items" }

\* The status codes the backend answers with in the model.
BackendStatuses == { 200, 401, 404, 500, 503 }

\* The backend is unreachable (fetch rejects), or it answers with a status
\* and a body that is JSON or not.
BackendAnswers ==
  { [reachable |-> FALSE, status |-> 0, json |-> FALSE] }
  \cup { [reachable |-> TRUE, status |-> st, json |-> j] : st \in BackendStatuses, j \in BOOLEAN }

\* A response of a route: its status, and whether the backend was asked.
Response(status, asked) == [status |-> status, asked |-> asked]

\* try { data = await response.json(); return c.json(data, response.status) }
\* catch { return c.json({error...}, failStatus) }: fetch rejects when the
\* backend is unreachable, response.json() when the body is not JSON.
forward(b, failStatus) ==
  IF ~b.reachable \/ ~b.json THEN Response(failStatus, TRUE) ELSE Response(b.status, TRUE)

\* /api/health: c.json({frontend, backend: data, timestamp}) carries no
\* status argument; the catch block answers 503.
health(b) ==
  IF ~b.reachable \/ ~b.json THEN Response(503, TRUE) ELSE Response(200, TRUE)

\* /api/batch/upload: 400 without a file, the backend is not asked.
upload(file, b) == IF ~file THEN Response(400, FALSE) ELSE forward(b, 500)

\* /api/item/:id/screening-export.csv: new Response(csvData, {headers})
\* carries no status; response.text() accepts any body.
screeningExport(b) == IF ~b.reachable THEN Response(500, TRUE) ELSE Response(200, TRUE)

InitProxy ==
  /\ phase = "loading"
  /\ NoLayout
  /\ NoRoster
  /\ NoName
  /\ NoScreening
  /\ NoZoom
  /\ NoPage
  /\ NoWalk
  /\ request \in Routes
  /\ hasFile \in BOOLEAN
  /\ backend \in BackendAnswers
  /\ routeResponse = <<>>

\* The handler of the route answers the request.
Handle(route, response) ==
  /\ request = route
  /\ routeResponse = <<>>
  /\ routeResponse' = <<response>>
  /\ UNCHANGED <<layoutVars, rosterVars, nameVars, screenVars, zoomVars, pageVars, walkVars, request, hasFile, backend>>

Health == Handle("/api/health", health(backend))
BatchUpload == Handle("/api/batch/upload", upload(hasFile, backend))
BatchStatus == Handle("/api/batch/:id/status", forward(backend, 500))
Batches == Handle("/api/batches", forward(backend, 500))
Item == Handle("/api/item/:id", forward(backend, 500))
ScreeningExport == Handle("/api/item/:id/screening-export.csv", screeningExport(backend))
BatchItems == Handle("/api/batch/:id/items", forward(backend, 500))

NextProxy ==
  \/ Health
  \/ BatchUpload
  \/ BatchStatus
  \/ Batches
  \/ Item
  \/ ScreeningExport
  \/ BatchItems

SpecProxy == InitProxy /\ [][NextProxy]_vars

\* --------------------------------------------------------- the zoom controls
\* Faulty variant: zoomIn without the upper limit.
zoomedIn_NoLimit(zoom) == zoom + zoomStep

\* Math.min(currentZoom + zoomStep, maxZoom)
zoomedIn(zoom) == IF zoom + zoomStep < maxZoom THEN zoom + zoomStep ELSE maxZoom

\* Math.max(currentZoom - zoomStep, minZoom)
zoomedOut(zoom) == IF zoom - zoomStep > minZoom THEN zoom - zoomStep ELSE minZoom

\* updateTreeZoom: the g of the svg in the container, if there is one, gets
\* the transform scale(zoom).
updateTreeZoom(zoom) == IF gTransform = <<>> THEN <<>> ELSE <<zoom>>

\* The page with or without a diagram in the container; createOwnershipSVG
\* writes the g with scale(1).
InitZoom ==
  /\ phase = "loaded"
  /\ NoLayout
  /\ NoRoster
  /\ NoName
  /\ NoScreening
  /\ NoProxy
  /\ NoPage
  /\ NoWalk
  /\ currentZoom = 1 * ZoomScale
  /\ lastZoom = ""
  /\ zoomCount = 0
  /\ gTransform \in {<<>>, <<1 * ZoomScale>>}

\* One click on a zoom button: currentZoom is set, then updateTreeZoom runs.
Zoom(name, zoom) ==
  /\ zoomCount < MaxZoomCalls
  /\ currentZoom' = zoom
  /\ gTransform' = updateTreeZoom(zoom)
  /\ lastZoom' = name
  /\ zoomCount' = zoomCount + 1
  /\ UNCHANGED <<layoutVars, rosterVars, nameVars, screenVars, proxyVars, pageVars, walkVars>>

ZoomIn == Zoom("zoomIn", zoomedIn(currentZoom))
ZoomOut == Zoom("zoomOut", zoomedOut(currentZoom))
ResetZoom == Zoom("resetZoom", 1 * ZoomScale)

NextZoom ==
  \/ ZoomIn
  \/ ZoomOut
  \/ ResetZoom

SpecZoom == InitZoom /\ [][NextZoom]_vars

\* ================================================================== claims
\* ------------------------------------------------ vocabulary of the claims
Kids(node) == node.shareholders \o node.children

\* N: every element of every shareholders/children list, plus the root.
RECURSIVE CountNodes(_)
CountNodes(node) ==
  1 + SumSeq([i \in 1..Len(Kids(node)) |-> CountNodes(Kids(node)[i])])

RECURSIVE Concat(_)
Concat(ss) == IF ss = <<>> THEN <<>> ELSE Head(ss) \o Concat(Tail(ss))

\* The dedup key of every node of the tree, each at the position the layout
\* gives it when nothing is skipped (preorder).
RECURSIVE PlacedKeys(_, _, _)
PlacedKeys(node, x, y) ==
  LET kids == Kids(node)
      w == [i \in 1..Len(kids) |-> getSubtreeWidth(kids[i])]
      left(i) == x - SumSeq(w) \div 2 + SumSeq(SubSeq(w, 1, i - 1))
  IN << IF node.company_number # ""
        THEN <<"number", node.company_number, 0, 0>>
        ELSE <<"name", node.name, x, y>> >>
     \o Concat([i \in 1..Len(kids) |->
                  PlacedKeys(kids[i], left(i) + w[i] \div 2, y + LevelHeight)])

Distinct(s) == \A i, j \in 1..Len(s) : i # j => s[i] # s[j]

KeysDistinct(tree) ==
  Distinct(PlacedKeys(tree, getSubtreeWidth(tree) \div 2, StartY))

\* A layout call has run, the latest one in the given view.
LaidOut(inv) ==
  phase = "loaded" /\ globalOwnershipTree # <<>> /\ isInverted = inv

NodeIds == {nodes[i].id : i \in 1..Len(nodes)}
NodeById(id) == CHOOSE n \in Range(nodes) : n.id = id
Incoming(id) == {i \in 1..Len(links) : links[i].target = id}

\* ---------------------------------------------------------------------- C2
\* C2 (as stated): a non-inverted layout of a tree with N nodes emits exactly
\* N positioned nodes and exactly N-1 links.
C2_Original ==
  LaidOut(FALSE) =>
    /\ Len(nodes) = CountNodes(globalOwnershipTree[1])
    /\ Len(links) = CountNodes(globalOwnershipTree[1]) - 1

\* C2 (amended): a non-inverted layout of a tree with N nodes emits at most N
\* positioned nodes and exactly one link fewer than nodes; it emits exactly N
\* nodes and N-1 links when no two nodes of the tree have the same dedup key.
C2_NodesAndLinks ==
  LaidOut(FALSE) =>
    LET N == CountNodes(globalOwnershipTree[1])
    IN /\ Len(nodes) <= N
       /\ Len(links) = Len(nodes) - 1
       /\ KeysDistinct(globalOwnershipTree[1]) =>
            Len(nodes) = N /\ Len(links) = N - 1

C2_Witness ==
  /\ LaidOut(FALSE)
  /\ KeysDistinct(globalOwnershipTree[1])
  /\ CountNodes(globalOwnershipTree[1]) = 4
  /\ Len(nodes) = 4
  /\ Len(links) = 3
  /\ globalOwnershipTree[1].children # <<>>

\* ---------------------------------------------------------------------- C3
\* C3: in the output of any layout call, normal or inverted, every link joins
\* a source node at depth d to a target node at depth d+1, and both ends are
\* ids of emitted nodes.
C3_LinksDescendOneLevel ==
  (phase = "loaded" /\ globalOwnershipTree # <<>>) =>
    \A i \in 1..Len(links) :
       /\ links[i].source \in NodeIds
       /\ links[i].target \in NodeIds
       /\ NodeById(links[i].target).depth = NodeById(links[i].source).depth + 1

C3_Witness ==
  /\ LaidOut(TRUE)
  /\ Len(links) >= 2
  /\ \E i \in 1..Len(links) : NodeById(links[i].source).depth = 1

\* ---------------------------------------------------------------------- C4
KeyOfEmitted(n) ==
  IF n.companyNumber # "" THEN <<"number", n.companyNumber, 0, 0>>
  ELSE <<"name", n.name, n.x, n.y>>

Emitted(v) == [name |-> v.name, companyNumber |-> v.companyNumber,
               depth |-> v.depth, x |-> v.x + xOffset, y |-> v.y]

Place(n) == [name |-> n.name, companyNumber |-> n.companyNumber,
             depth |-> n.depth, x |-> n.x, y |-> n.y]

KeptVisits == SelectSeq(visits, LAMBDA v : ~v.skipped)

\* C4: within one layout call at most one positioned node is emitted per
\* dedup key; a visited node is skipped exactly when an earlier visited node
\* has its key, the emitted nodes are the visited nodes that were not
\* skipped, each at the position of that visit, and a skipped node's
\* children are not visited.
C4_OnePerKey ==
  (phase = "loaded" /\ globalOwnershipTree # <<>>) =>
    /\ \A i, j \in 1..Len(nodes) :
          i # j => KeyOfEmitted(nodes[i]) # KeyOfEmitted(nodes[j])
    /\ \A i \in 1..Len(visits) :
          visits[i].skipped <=>
            \E j \in 1..(i - 1) :
               KeyOfEmitted(visits[j]) = KeyOfEmitted(visits[i])
    /\ Len(nodes) = Len(KeptVisits)
    /\ \A i \in 1..Len(nodes) : Place(nodes[i]) = Emitted(KeptVisits[i])
    /\ Len(visits) =
         Cardinality({i \in 1..Len(visits) : visits[i].parentId = NoParent})
         + SumSeq([i \in 1..Len(KeptVisits) |-> KeptVisits[i].kids])

\* The same registry number under two different parents, the second
\* occurrence one that has children of its own.
C4_Witness ==
  /\ LaidOut(FALSE)
  /\ \E i, j \in 1..Len(visits) :
        /\ i < j
        /\ visits[i].companyNumber # ""
        /\ visits[i].companyNumber = visits[j].companyNumber
        /\ visits[i].parentId # visits[j].parentId
        /\ visits[i].parentId # NoParent
        /\ ~visits[i].skipped
        /\ visits[j].skipped
  /\ \E j \in 1..Len(visits) : visits[j].skipped /\ visits[j].kids > 0

\* ---------------------------------------------------------------------- C5
\* C5: in the output of any layout call every positioned node is the target
\* of at most one link, a top-level node (depth 0) of none, and every other
\* node of exactly one.
C5_OneIncomingLink ==
  (phase = "loaded" /\ globalOwnershipTree # <<>>) =>
    \A i \in 1..Len(nodes) :
       /\ Cardinality(Incoming(nodes[i].id)) <= 1
       /\ nodes[i].depth # 0 => Cardinality(Incoming(nodes[i].id)) = 1
       /\ nodes[i].depth = 0 => Incoming(nodes[i].id) = {}

C5_Witness ==
  /\ LaidOut(TRUE)
  /\ Cardinality({i \in 1..Len(nodes) : nodes[i].depth = 0}) >= 2
  /\ \E i \in 1..Len(nodes) : nodes[i].depth = 2

\* ----------------------------------------------------------------- C6, C7
\* The traverseTree calls made for the children of the node of r, in order.
ChildVisits(r) == SelectSeq(visits, LAMBDA v : v.parentId = r.id /\ v.y # StartY)

\* Child i of the node of r is centred in the i-th of the consecutive spans
\* r.widths, which start at r.x minus half their sum.
PlacedByWidths(r) ==
  /\ Len(ChildVisits(r)) = Len(r.kids)
  /\ \A i \in 1..Len(r.kids) :
        ChildVisits(r)[i].x =
          r.x - SumSeq(r.widths) \div 2 + SumSeq(SubSeq(r.widths, 1, i - 1))
          + r.widths[i] \div 2

\* C6 (as stated): for a node with more than 6 direct children the width
\* traverseTree reserves for each child is exactly 200, so that the reserved
\* widths sum to the 200 x childCount getSubtreeWidth reports for the node.
C6_CompactReserve ==
  (phase = "loaded" /\ globalOwnershipTree # <<>>) =>
    \A r \in reserved :
       Len(r.kids) > 6 =>
         /\ PlacedByWidths(r)
         /\ \A i \in 1..Len(r.kids) : r.widths[i] = 200
         /\ SumSeq(r.widths) = getSubtreeWidth(r.node)

\* C7: for a node with 1 to 6 direct children the children are placed in
\* consecutive spans whose widths are the children's subtree widths,
\* the node's own subtree width is their sum, and a leaf's is 250.
C7_NarrowReserve ==
  (phase = "loaded" /\ globalOwnershipTree # <<>>) =>
    \A r \in reserved :
       Len(r.kids) \in 1..6 =>
         /\ PlacedByWidths(r)
         /\ \A i \in 1..Len(r.kids) :
               /\ r.widths[i] = getSubtreeWidth(r.kids[i])
               /\ Kids(r.kids[i]) = <<>> => r.widths[i] = 250
         /\ getSubtreeWidth(r.node) = SumSeq(r.widths)

C7_Witness ==
  /\ LaidOut(FALSE)
  /\ \E r \in reserved : Len(r.kids) = 6
  /\ \E r \in reserved :
        /\ Len(r.kids) = 2
        /\ \E i \in 1..2 : Len(Kids(r.kids[i])) = 2

\* ---------------------------------------------------------------------- C8
Abs(n) == IF n < 0 THEN 0 - n ELSE n

\* C8 (as stated): no two positioned nodes of one layout call overlap: two
\* distinct nodes with the same y are at least the box width (200) apart in
\* x.
C8_NoOverlap ==
  (phase = "loaded" /\ globalOwnershipTree # <<>>) =>
    \A i, j \in 1..Len(nodes) :
       (i # j /\ nodes[i].y = nodes[j].y) =>
          Abs(nodes[i].x - nodes[j].x) >= BoxWidth

\* ---------------------------------------------------------------------- C9
RECURSIVE IsChain(_)
IsChain(node) ==
  Len(Kids(node)) <= 1 /\ (Len(Kids(node)) = 1 => IsChain(Kids(node)[1]))

\* The nodes of a chain from its top node down.
RECURSIVE ChainSeq(_)
ChainSeq(node) ==
  <<node>> \o (IF Kids(node) = <<>> THEN <<>> ELSE ChainSeq(Kids(node)[1]))

\* 100% times the percentage of every node of the path below its first node,
\* an absent percentage counting as 0.
RECURSIVE PathProduct(_)
PathProduct(path) ==
  IF Len(path) <= 1 THEN 100 * PScale
  ELSE (PathProduct(SubSeq(path, 1, Len(path) - 1)) * path[Len(path)].percentage)
         \div (100 * PScale)

\* C9: for a tree of depth D in which every node has at most one child,
\* invertOwnershipTree returns a virtual root of depth -1 with exactly one
\* chain of D+1 nodes, the original path reversed: its first node is the
\* original leaf with depth 0, its last the original root, and the leaf's
\* effective_percentage is the product of the percentages along the path.
C9_InvertChain ==
  (LaidOut(TRUE) /\ IsChain(globalOwnershipTree[1])) =>
    LET o == ChainSeq(globalOwnershipTree[1])
        D == Len(o) - 1
        w == workingTree[1]
    IN /\ w.depth = 0 - 1
       /\ Len(Kids(w)) = 1
       /\ IsChain(Kids(w)[1])
       /\ LET c == ChainSeq(Kids(w)[1])
          IN /\ Len(c) = D + 1
             /\ \A i \in 1..(D + 1) :
                   /\ c[i].name = o[D + 2 - i].name
                   /\ c[i].company_number = o[D + 2 - i].company_number
                   /\ c[i].depth = i - 1
             /\ c[1].effective_percentage = PathProduct(o)

\* X Ltd held 60% by a company held 50% by Bob: Bob's effective percentage
\* is 30.
C9_Witness ==
  /\ LaidOut(TRUE)
  /\ IsChain(globalOwnershipTree[1])
  /\ LET o == ChainSeq(globalOwnershipTree[1])
     IN /\ Len(o) = 3
        /\ o[2].percentage = 60 * PScale
        /\ o[3].percentage = 50 * PScale
        /\ o[3].name = "Bob"
  /\ Kids(workingTree[1])[1].name = "Bob"
  /\ Kids(workingTree[1])[1].effective_percentage = 30 * PScale

\* --------------------------------------------------------------------- C10
\* The leaves of the tree, each with the cumulative percentage of its path
\* from the root (an absent percentage counting as 0).
RECURSIVE LeavesOf(_, _)
LeavesOf(node, cum) ==
  IF Kids(node) = <<>>
  THEN {[name |-> node.name, company_number |-> node.company_number, cum |-> cum]}
  ELSE UNION { LeavesOf(Kids(node)[i],
                        (cum * Kids(node)[i].percentage) \div (100 * PScale)) :
                 i \in 1..Len(Kids(node)) }

\* C10 (as stated): in the inverted view the positioned node emitted at
\* depth 0 for a leaf carries the leaf's cumulative percentage along its
\* original path from the root.
C10_LeafPercentage ==
  LaidOut(TRUE) =>
    \A i \in 1..Len(nodes) :
       nodes[i].depth = 0 =>
         \E leaf \in LeavesOf(globalOwnershipTree[1], 100 * PScale) :
            /\ leaf.name = nodes[i].name
            /\ leaf.company_number = nodes[i].companyNumber
            /\ leaf.cum = nodes[i].percentage

\* ---------------------------------------------------------------------- C1
CalledNames == {calls[i][1] : i \in 1..Len(calls)}

\* C1: after any sequence of addPerson calls the roster holds exactly one
\* entry per normalized-name key of the names it was called with: no two
\* entries share a key, and a record whose name normalizes to a key already
\* present leaves the number of entries unchanged.
C1_OneEntryPerKey ==
  /\ \A i, j \in 1..Len(personMap) :
        i # j => personMap[i].key # personMap[j].key
  /\ {personMap[i].key : i \in 1..Len(personMap)}
       = {KeyTable[n] : n \in CalledNames}
  /\ Len(personMap) = Cardinality({KeyTable[n] : n \in CalledNames})

\* Three records under three different raw names, two of them company names
\* and two of them names of one person, leave two entries.
C1_Witness ==
  /\ Len(calls) = 3
  /\ Cardinality(CalledNames) = 3
  /\ Len(personMap) = 2

\* ----------------------------------------------- vocabulary of the roster
\* The latest addPerson call and the key it was made under.
LastName == calls[Len(calls)][1]
LastData == calls[Len(calls)][2]

\* The step is one addPerson call.
IsCall == calls' = Append(calls, calls'[Len(calls')])

CarriesData(data) == data.nationality # "" \/ data.dob # ""
HasComma(name) == includes(name, <<",">>)

\* The calls made so far under the given key, in order.
CallsOf(key) == SelectSeq(calls, LAMBDA c : keyOf(c[1]) = key)

\* The non-empty values of a sequence, each at its first occurrence.
RECURSIVE FirstArrival(_)
FirstArrival(s) ==
  IF s = <<>> THEN <<>>
  ELSE LET r == FirstArrival(SubSeq(s, 1, Len(s) - 1))
           v == s[Len(s)]
       IN IF v = "" \/ v \in Range(r) THEN r ELSE Append(r, v)

ALtdUpper == <<"A", " ", "L", "T", "D">>
ALtdMixed == <<"A", " ", "L", "t", "d">>
KhanComma == <<"K", "h", "a", "n", ",", " ", "H", "a", "r", "o", "o", "n">>
MrKhan == <<"M", "r", " ", "H", "a", "r", "o", "o", "n", " ", "K", "h", "a", "n">>

\* --------------------------------------------------------------------- C11
\* C11: addPerson is idempotent on identical records: a call that repeats
\* the call before it (same name, same record) leaves the whole roster -
\* entry count, display name, roles, linkedEntities, nationality, dob,
\* isCompany, companyNumber of every entry - as the first of the two left it.
C11_Idempotent ==
  [][(calls # <<>> /\ calls' = Append(calls, calls[Len(calls)]))
        => personMap' = personMap]_vars

\* A record with a role and a linked entity was merged into an entry that
\* another record had created, and then merged once more.
C11_Witness ==
  /\ Len(calls) = 3
  /\ calls[2] = calls[3]
  /\ calls[1] # calls[2]
  /\ Len(personMap) = 1
  /\ Len(personMap[1].roles) = 2
  /\ Len(personMap[1].linkedEntities) = 2

\* --------------------------------------------------------------------- C14
\* C14 (as stated): when addPerson merges a record into an existing entry, the
\* display name becomes the new name exactly when (a) the record carries
\* nationality or dob and the entry has neither, or (b) the new name contains
\* a comma and the entry's display name does not; otherwise it is unchanged.
C14_Original ==
  [][IsCall =>
       \A i \in 1..Len(personMap) :
          personMap[i].key = keyOf(LastName') =>
            personMap'[i].name =
              IF \/ /\ CarriesData(LastData')
                    /\ personMap[i].nationality = "" /\ personMap[i].dob = ""
                 \/ /\ HasComma(LastName')
                    /\ ~HasComma(personMap[i].name)
              THEN trim(LastName') ELSE personMap[i].name]_vars

\* C14 (amended): when addPerson merges a record into an existing entry, the
\* display name becomes the (trimmed) new name exactly when (a) the record
\* carries nationality or dob and the entry has neither, or (b) the record
\* carries neither nationality nor dob, the new name contains a comma and the
\* entry's display name does not; otherwise it is unchanged.
C14_DisplayName ==
  [][IsCall =>
       \A i \in 1..Len(personMap) :
          personMap[i].key = keyOf(LastName') =>
            personMap'[i].name =
              IF \/ /\ CarriesData(LastData')
                    /\ personMap[i].nationality = "" /\ personMap[i].dob = ""
                 \/ /\ ~CarriesData(LastData')
                    /\ HasComma(LastName')
                    /\ ~HasComma(personMap[i].name)
              THEN trim(LastName') ELSE personMap[i].name]_vars

\* The three outcomes of a merge: the name taken for the record's data, the
\* name taken for its comma, and a name with a comma not taken because the
\* record carries data the entry already has.
C14_Witness ==
  /\ Len(calls) = 3
  /\ Len(personMap) = 1
  /\ calls[1][1] = MrKhan /\ ~CarriesData(calls[1][2])
  /\ calls[2][1] = MrKhan /\ CarriesData(calls[2][2])
  /\ calls[3][1] = KhanComma /\ CarriesData(calls[3][2])
  /\ personMap[1].name = MrKhan

\* --------------------------------------------------------------------- C15
\* C15: after any sequence of addPerson calls every entry's roles list and
\* linkedEntities list hold no value twice and hold the values of the
\* records merged into the entry in order of first arrival; records 'A LTD'
\* (role Parent) then 'A Ltd' (role Ultimate Parent) give one entry with
\* roles [Parent, Ultimate Parent].
C15_UniqueInOrder ==
  /\ \A i \in 1..Len(personMap) :
        LET cs == CallsOf(personMap[i].key)
        IN /\ personMap[i].roles
                = FirstArrival([k \in 1..Len(cs) |-> cs[k][2].role])
           /\ personMap[i].linkedEntities
                = FirstArrival([k \in 1..Len(cs) |-> cs[k][2].linkedEntity])
           /\ \A a, b \in 1..Len(personMap[i].roles) :
                 a # b => personMap[i].roles[a] # personMap[i].roles[b]
           /\ \A a, b \in 1..Len(personMap[i].linkedEntities) :
                 a # b => personMap[i].linkedEntities[a] # personMap[i].linkedEntities[b]
  /\ (/\ Len(calls) = 2
      /\ calls[1][1] = ALtdUpper /\ calls[1][2].role = "Parent"
      /\ calls[2][1] = ALtdMixed /\ calls[2][2].role = "Ultimate Parent")
       => /\ Len(personMap) = 1
          /\ personMap[1].roles = <<"Parent", "Ultimate Parent">>

\* 'A LTD' (Parent) then 'A Ltd' (Ultimate Parent), then 'A LTD' (Parent)
\* again: one entry, two roles, two linked entities.
C15_Witness ==
  /\ Len(calls) = 3
  /\ calls[1][1] = ALtdUpper /\ calls[1][2].role = "Parent"
  /\ calls[2][1] = ALtdMixed /\ calls[2][2].role = "Ultimate Parent"
  /\ calls[3] = calls[1]
  /\ Len(personMap) = 1
  /\ personMap[1].roles = <<"Parent", "Ultimate Parent">>
  /\ personMap[1].linkedEntities = <<"T Ltd", "N/A">>

\* --------------------------------------------------------------------- C16
\* C16: across any sequence of addPerson calls, an entry's nationality, dob
\* or companyNumber, once it holds a value, is never changed by a later
\* merge, and an entry's isCompany, once true, stays true.
C16_FirstWriterWins ==
  [][/\ Len(personMap') >= Len(personMap)
     /\ \A i \in 1..Len(personMap) :
          /\ personMap'[i].key = personMap[i].key
          /\ personMap[i].nationality # ""
               => personMap'[i].nationality = personMap[i].nationality
          /\ personMap[i].dob # "" => personMap'[i].dob = personMap[i].dob
          /\ personMap[i].companyNumber # ""
               => personMap'[i].companyNumber = personMap[i].companyNumber
          /\ personMap[i].isCompany => personMap'[i].isCompany]_vars

\* An entry created with nationality Irish and completed with the dob of a
\* later record that carried another nationality; it became a company entry
\* by a third record and kept that record's registry number.
C16_Witness ==
  /\ Len(calls) = 3
  /\ Len(personMap) = 1
  /\ calls[1][2].nationality = "Irish"
  /\ calls[2][2].nationality = "British"
  /\ calls[3][2].isCompany
  /\ personMap[1].nationality = "Irish"
  /\ personMap[1].dob = "1980-01"
  /\ personMap[1].isCompany
  /\ personMap[1].companyNumber = calls[3][2].companyNumber

\* ------------------------------------------------ vocabulary of the names
Words(name) == splitOn(name, " ")

\* The names made of the words of the given name in any order.
Reorderings(name) ==
  { joinSpace([k \in 1..Len(Words(name)) |-> Words(name)[a[k]]]) :
      a \in Arrangements(1..Len(Words(name)), Len(Words(name))) }

\* The word is a courtesy title, with or without a period.
IsTitleWord(w) ==
  \E t \in Titles : toUpperCase(w) = t \/ toUpperCase(w) = t \o <<".">>

\* --------------------------------------------------------------------- C12
\* C12: normalizeName maps "UNITED KENNING RENTAL GROUP LIMITED" to "UNITED
\* KENNING RENTAL GROUP LTD", "Khan, Haroon" to "HAROON KHAN", and both "Mr
\* John Smith" and "SMITH, John" to "JOHN SMITH"; a courtesy title put before
\* a person's name and the 'Lastname, Firstname' ordering do not change the
\* person's key, and a trailing LIMITED and a trailing LTD give the same
\* company key.
C12_Examples ==
  nameKey # <<>> =>
    /\ rawName = KenningLimited
         => nameKey[1] = <<"U", "N", "I", "T", "E", "D", " ", "K", "E", "N", "N", "I", "N", "G", " ", "R", "E", "N", "T", "A", "L", " ", "G", "R", "O", "U", "P", " ", "L", "T", "D">>
    /\ rawName = KhanComma => nameKey[1] = <<"H", "A", "R", "O", "O", "N", " ", "K", "H", "A", "N">>
    /\ rawName \in {MrJohnSmith, SmithCommaJohn} => nameKey[1] = <<"J", "O", "H", "N", " ", "S", "M", "I", "T", "H">>
    /\ \A g \in GivenNames, f \in FamilyNames :
          LET plain == joinSpace(<<g, f>>)
              comma == f \o <<",", " ">> \o g
          IN (\/ rawName = comma
              \/ \E t \in TitleForms :
                    rawName \in {joinSpace(<<t, plain>>), joinSpace(<<t, comma>>)})
               => nameKey[1] = normalizeName(plain)
    /\ \A c \in CompanyStems, x \in LimitedForms \cup LtdForms :
          rawName = joinSpace(<<c, x>>)
            => nameKey[1] = normalizeName(joinSpace(<<c, LTD>>))

\* "Mr John Smith" has been normalized to "JOHN SMITH".
C12_Witness ==
  /\ rawName = MrJohnSmith
  /\ nameKey = <<<<"J", "O", "H", "N", " ", "S", "M", "I", "T", "H">>>>

\* --------------------------------------------------------------------- C13
\* C13 (as stated): for any person name (one not containing LIMITED, LTD, PLC
\* or LLP) normalizeName is insensitive to word order: every permutation of
\* the name's words yields the same key.
C13_Original ==
  (nameKey # <<>> /\ ~looksLikeCompany(rawName)) =>
    \A other \in Reorderings(rawName) : normalizeName(other) = nameKey[1]

\* C13 (amended): for any person name (one not containing LIMITED, LTD, PLC
\* or LLP) whose words are separated by single spaces and none of whose
\* words is a courtesy title (MR, MRS, MS, MISS, DR, SIR, DAME, LORD, LADY,
\* PROFESSOR, PROF, with or without a period), normalizeName is insensitive
\* to word order: every permutation of the name's words yields the same key.
C13_WordOrder ==
  (/\ nameKey # <<>>
   /\ ~looksLikeCompany(rawName)
   /\ \A k \in 1..Len(Words(rawName)) : Len(Words(rawName)[k]) > 0
   /\ \A k \in 1..Len(Words(rawName)) : ~IsTitleWord(Words(rawName)[k]))
    => \A other \in Reorderings(rawName) : normalizeName(other) = nameKey[1]

\* A name of three words, one of them with a comma, has been normalized.
C13_Witness ==
  /\ rawName = <<"K", "h", "a", "n", ",", " ", "A", "l", " ", "H", "a", "r", "o", "o", "n">>
  /\ nameKey = <<<<"A", "L", " ", "H", "A", "R", "O", "O", "N", " ", "K", "H", "A", "N">>>>

\* ---------------------------------------- vocabulary of the screening list
\* The source lists in the order the consolidator is to take them.
SourceOrder ==
  <<"ownership_chain", "governance_and_control", "ubos", "trusts", "entity">>

\* The pass is at a record, and at which list; the pass is over.
AtRecord == cursor.list \in 1..Len(ListOrder)
CurrentList == ListOrder[cursor.list]
Consolidated == cursor.list = Len(ListOrder) + 2

\* The record counts for the roster: of the ownership chain only companies do.
Counts(list, entry) == list = "ownership_chain" => entry.is_company

RoleIn(list, entry) == IF list = "entity" THEN entry.type ELSE entry.role
LinkedEntityIn(list) == IF list = "entity" THEN "N/A" ELSE targetCompanyName

\* The places in the list of the records that count and have the key.
PlacesOf(key, list) ==
  { i \in 1..Len(screening_list[list]) :
      /\ Counts(list, screening_list[list][i])
      /\ keyOf(screening_list[list][i].name) = key }

\* The source lists (by their place in SourceOrder) with a record that counts
\* and has the key; those where such a record has the role.
ListsWithKey(key) ==
  { k \in 1..Len(SourceOrder) : PlacesOf(key, SourceOrder[k]) # {} }

ListsWithRole(key, role) ==
  { k \in 1..Len(SourceOrder) :
      \E i \in PlacesOf(key, SourceOrder[k]) :
         RoleIn(SourceOrder[k], screening_list[SourceOrder[k]][i]) = role }

\* --------------------------------------------------------------------- C17
\* Every entry, role and linked entity of the roster comes from a record that
\* counts.
OnlyFromCounted(entries) ==
  \A i \in 1..Len(entries) :
     /\ ListsWithKey(entries[i].key) # {}
     /\ \A r \in Range(entries[i].roles) : ListsWithRole(entries[i].key, r) # {}
     /\ \A le \in Range(entries[i].linkedEntities) :
           \E k \in ListsWithKey(entries[i].key) : LinkedEntityIn(SourceOrder[k]) = le

\* C17: an ownership-chain record whose is_company flag is not true
\* contributes nothing to the roster: the step that reads it leaves the roster
\* as it was, a party that appears only as an individual of the ownership
\* chain is absent from the roster and from the consolidated output, and no
\* entry has a role or linked entity from such a record.
C17_IndividualsSkipped ==
  [][/\ (/\ AtRecord
         /\ CurrentList = "ownership_chain"
         /\ ~screening_list.ownership_chain[cursor.idx].is_company)
          => (personMap' = personMap /\ calls' = calls)
     /\ OnlyFromCounted(personMap')
     /\ OnlyFromCounted(consolidatedList')]_vars

\* Two individuals in the ownership chain, one of them also in governance
\* and control with another role: the output has one entry with that role.
C17_Witness ==
  /\ Consolidated
  /\ Len(screening_list.ownership_chain) = 2
  /\ \A i \in 1..2 : ~screening_list.ownership_chain[i].is_company
  /\ Len(screening_list.governance_and_control) = 1
  /\ keyOf(screening_list.governance_and_control[1].name)
       \in { keyOf(screening_list.ownership_chain[i].name) : i \in 1..2 }
  /\ Len(consolidatedList) = 1
  /\ consolidatedList[1].roles = <<"Secretary">>

\* --------------------------------------------------------------------- C18
\* C18: the consolidator processes the source lists in the fixed order
\* ownership-chain companies, governance-and-control, UBOs, trusts,
\* entities: an entry is created by the step that reads the first record of
\* the earliest list that has its key, from that record, and in every entry a
\* role contributed by an earlier list precedes any role contributed only by
\* a later list.
C18_SourceOrder ==
  [][/\ Len(personMap') > Len(personMap) =>
          LET e == personMap'[Len(personMap')]
              list == SourceOrder[Min(ListsWithKey(e.key))]
              i == Min(PlacesOf(e.key, list))
          IN /\ AtRecord
             /\ CurrentList = list
             /\ cursor.idx = i
             /\ e.name = trim(screening_list[list][i].name)
             /\ e.roles = FirstArrival(<<RoleIn(list, screening_list[list][i])>>)
             /\ e.linkedEntities = <<LinkedEntityIn(list)>>
     /\ \A n \in 1..Len(personMap') :
          \A a, b \in 1..Len(personMap'[n].roles) :
             Min(ListsWithRole(personMap'[n].key, personMap'[n].roles[a]))
               < Min(ListsWithRole(personMap'[n].key, personMap'[n].roles[b]))
               => a < b]_vars

\* A company of the ownership chain that is also among the entities, and a
\* director: the company's entry has the name of the ownership chain's record
\* and the roles in the order of the lists.
C18_Witness ==
  /\ Consolidated
  /\ Len(consolidatedList) = 2
  /\ consolidatedList[1].name = ALtdUpper
  /\ consolidatedList[1].roles = <<"Parent", "Corporate">>
  /\ consolidatedList[1].linkedEntities = <<"T Ltd", "N/A">>
  /\ consolidatedList[2].roles = <<"Director">>

\* --------------------------------------------------------------------- C19
\* C19: the consolidated output array has exactly one element per roster key
\* (the entries of the roster, each once), every entry whose isCompany is
\* true before every entry whose isCompany is false, and the entries of each
\* group in ascending order of their display names as localeCompare orders
\* them.
C19_SortedOutput ==
  Consolidated =>
    /\ Len(consolidatedList) = Len(personMap)
    /\ Range(consolidatedList) = Range(personMap)
    /\ \A i, j \in 1..Len(consolidatedList) :
          i # j => consolidatedList[i].key # consolidatedList[j].key
    /\ \A i, j \in 1..Len(consolidatedList) :
          i < j =>
            /\ consolidatedList[j].isCompany => consolidatedList[i].isCompany
            /\ consolidatedList[i].isCompany = consolidatedList[j].isCompany
                 => localeCompare(consolidatedList[i].name,
                                  consolidatedList[j].name) <= 0

\* Two individuals entered the roster before a company and in descending
\* order of their names, one of the names in lower case: the output is the
\* roster in reverse.
C19_Witness ==
  /\ Consolidated
  /\ Len(personMap) = 3
  /\ personMap[1].name = MrKhan
  /\ personMap[2].name = <<"d", "e", " ", "W", "i", "t", "t">>
  /\ personMap[3].isCompany
  /\ consolidatedList = <<personMap[3], personMap[2], personMap[1]>>

\* --------------------------------------------------------------------- C20
\* The cumulative percentage of every node of the tree, in the order the
\* layout visits them: cum for the node itself, and for each child the
\* node's cumulative percentage times the child's own percentage over 100.
RECURSIVE Cumulatives(_, _)
Cumulatives(node, cum) ==
  <<cum>> \o Concat([i \in 1..Len(Kids(node)) |->
                       Cumulatives(Kids(node)[i],
                                   (cum * Kids(node)[i].percentage) \div (100 * PScale))])

\* C20 (as stated): in the normal (non-inverted) layout every positioned node
\* carries the effective cumulative percentage of its path - the root 100,
\* each child its parent's cumulative percentage times its own percentage
\* over 100 - so every emitted percentage lies in [0,100].  (Stated for the
\* trees in which no dedup key repeats, where every node is emitted.)
C20_CumulativePercentage ==
  (LaidOut(FALSE) /\ KeysDistinct(globalOwnershipTree[1])) =>
    /\ [i \in 1..Len(nodes) |-> nodes[i].percentage]
         = Cumulatives(globalOwnershipTree[1], 100 * PScale)
    /\ \A i \in 1..Len(nodes) :
          0 <= nodes[i].percentage /\ nodes[i].percentage <= 100 * PScale

\* ---------------------------------------------------------------------- C24
\* The name with every "P.L.C" written "PLC" and every "L.L.P" written "LLP".
Undotted(name) == splitJoin(splitJoin(name, <<"P", ".", "L", ".", "C">>, PLC), <<"L", ".", "L", ".", "P">>, LLP)

\* C24: a name whose legal suffix is written with dots ("ACME P.L.C",
\* "ACME L.L.P") gets the key of the same name written without the dots
\* ("ACME PLC", "ACME LLP"), so that addPerson merges the two spellings.
C24_DottedSuffix ==
  nameKey # <<>> => nameKey[1] = normalizeName(Undotted(rawName))

\* ---------------------------------------------------------------------- C25
\* The name with every run of spaces replaced by one space.
SingleSpaced(name) == joinSpace(SelectSeq(splitOn(name, " "), LAMBDA w : Len(w) > 0))

\* C25: two names that differ only in the amount of whitespace between
\* their words get the same key, for persons and for companies.
C25_WhitespaceRuns ==
  nameKey # <<>> => nameKey[1] = normalizeName(SingleSpaced(rawName))

\* ---------------------------------------------------------------------- C21
\* A percentage as the claim reads it: 0 when negative or above 100 (an
\* absent percentage is 0 already).
SanePct(p) == IF p < 0 \/ p > 100 * PScale THEN 0 ELSE p

\* The tree with the percentage of every node below the root read that way.
RECURSIVE Sanitized(_, _)
Sanitized(node, isRoot) ==
  [node EXCEPT !.percentage = IF isRoot THEN @ ELSE SanePct(@),
               !.shareholders = [i \in 1..Len(@) |-> Sanitized(@[i], FALSE)],
               !.children = [i \in 1..Len(@) |-> Sanitized(@[i], FALSE)]]

\* C21: a non-root node whose percentage is absent, negative or greater than
\* 100 is treated as having percentage 0 everywhere: the layout, normal or
\* inverted, is the layout of the tree with those percentages set to 0, and
\* in the inverted chain of a single-path tree every intermediate node
\* carries its own percentage read that way (0 when absent).
C21_MalformedAsZero ==
  \A inv \in BOOLEAN :
    LaidOut(inv) =>
      /\ nodes = buildRecursiveOwnershipTree(Sanitized(globalOwnershipTree[1], TRUE), inv).nodes
      /\ links = buildRecursiveOwnershipTree(Sanitized(globalOwnershipTree[1], TRUE), inv).links
      /\ (inv /\ IsChain(globalOwnershipTree[1])) =>
            LET o == ChainSeq(globalOwnershipTree[1])
                c == ChainSeq(Kids(workingTree[1])[1])
            IN \A i \in 2..(Len(o) - 1) :
                  c[i].percentage = SanePct(o[Len(o) + 1 - i].percentage)

\* ---------------------------------------------------------------------- C30
\* The ids of the positioned nodes a path of links leads to from the ids S.
RECURSIVE ReachedFrom(_)
ReachedFrom(S) ==
  LET next == S \cup {links[i].target : i \in {j \in 1..Len(links) : links[j].source \in S}}
  IN IF next = S THEN S ELSE ReachedFrom(next)

\* The number of leaves of the tree.
RECURSIVE CountLeaves(_)
CountLeaves(node) ==
  IF Kids(node) = <<>> THEN 1
  ELSE SumSeq([i \in 1..Len(Kids(node)) |-> CountLeaves(Kids(node)[i])])

\* C30: in the inverted view the positioned output has one complete chain
\* per leaf of the input tree: there is one node at depth 0 per leaf, every
\* node at depth 0 is connected by a path of links to a positioned node for
\* the target company (the original root), and the virtual root is not
\* emitted.
C30_CompleteChains ==
  LaidOut(TRUE) =>
    /\ Cardinality({i \in 1..Len(nodes) : nodes[i].depth = 0}) = CountLeaves(globalOwnershipTree[1])
    /\ \A i \in 1..Len(nodes) :
          nodes[i].depth = 0 =>
            \E id \in ReachedFrom({nodes[i].id}) :
               /\ NodeById(id).name = globalOwnershipTree[1].name
               /\ NodeById(id).companyNumber = globalOwnershipTree[1].company_number
    /\ \A i \in 1..Len(nodes) :
          nodes[i].depth >= 0 /\ nodes[i].name # VirtualRootName

C27_StatusForwarded ==
  (routeResponse # <<>> /\ routeResponse[1].asked /\ backend.reachable) =>
    routeResponse[1].status = backend.status

\* ---------------------------------------------------------------------- C28
\* The distance between two zoom factors.
Distance(a, b) == IF a < b THEN b - a ELSE a - b

\* C28: after any sequence of zoomIn, zoomOut and resetZoom calls
\* currentZoom is within [minZoom, maxZoom] = [0.5, 3]; a zoomIn or zoomOut
\* call changes it by at most one step of 0.2, and resetZoom sets it to 1.
C28_ZoomRange ==
  [][/\ minZoom <= currentZoom' /\ currentZoom' <= maxZoom
     /\ lastZoom' \in {"zoomIn", "zoomOut"} => Distance(currentZoom, currentZoom') <= zoomStep
     /\ lastZoom' = "zoomIn" => currentZoom' >= currentZoom
     /\ lastZoom' = "zoomOut" => currentZoom' <= currentZoom
     /\ lastZoom' = "resetZoom" => currentZoom' = 1 * ZoomScale]_vars

\* Three clicks on zoomOut: 0.8, 0.6, and the third is cut at minZoom; the
\* diagram is scaled by 0.5.
C28_Witness ==
  /\ zoomCount = 3
  /\ lastZoom = "zoomOut"
  /\ currentZoom = minZoom
  /\ gTransform = <<minZoom>>

\* ---------------------------------------------------------------------- C23
\* C23 (as stated): whenever the fetched item has no ownership tree and no
\* shareholder list, the page shows an explicit empty-state message in place
\* of the ownership diagram, whatever the item's enrich_status, and the error
\* state is not entered.
C23_Original ==
  (phase # "loading" /\ itemResponse = "ok" /\ ownership_tree = <<>> /\ item_shareholders = 0) =>
    phase = "loaded" /\ ownershipSection = "message"

\* C23 (amended): whenever the fetched item has no shareholder list, with or
\* without an ownership tree, the page shows the empty-state message in
\* place of the ownership diagram if enrich_status is 'done', and no
\* ownership card at all for any other status; the error state is not
\* entered.
C23_EmptyState ==
  (phase # "loading" /\ itemResponse = "ok" /\ item_shareholders = 0) =>
    /\ phase = "loaded"
    /\ enrich_status = "done" => ownershipSection = "message"
    /\ enrich_status # "done" => ownershipSection = "none"

\* An item still being enriched, without tree and without shareholders, has
\* been loaded: the page has no ownership card.
C23_Witness ==
  /\ phase = "loaded"
  /\ ownership_tree = <<>>
  /\ item_shareholders = 0
  /\ enrich_status = "running"
  /\ ownershipSection = "none"

\* ---------------------------------------------------------------------- C29
\* The diagrams a layout call can hand to its timer.
PageDiagrams ==
  { Diagram(buildRecursiveOwnershipTree(t, inv)) : t \in PageTrees, inv \in BOOLEAN }

\* C29: every call of buildRecursiveOwnershipTree is eventually followed by
\* its diagram being shown in the ownership-tree container, for any item
\* whose ownership_tree has at least one shareholder; and once the timers of
\* several calls have fired, the diagram displayed is that of the latest
\* call.
C29_DiagramShown ==
  /\ \A d \in PageDiagrams : (\E i \in 1..Len(timers) : timers[i] = d) ~> (displayed = <<d>>)
  /\ [](LaidOut(isInverted) /\ timers = <<>> => displayed = <<[nodes |-> nodes, links |-> links]>>)

\* ---------------------------------------------------------------------- C22
\* The tree has a node with a registry number below a node with the same
\* registry number.
RECURSIVE RefersBack(_, _)
RefersBack(node, above) ==
  \/ node.company_number # "" /\ node.company_number \in above
  \/ \E i \in 1..Len(Kids(node)) : RefersBack(Kids(node)[i], above \cup {node.company_number})

\* C22: a layout call terminates on every input, also when a descendant
\* refers back to one of its ancestors or the same node hangs below several
\* parents: findUBOs (inverted view), getSubtreeWidth and traverseTree all
\* return, and the repeated branch is dropped - no key is placed twice, and
\* the nodes placed are those of the layout.
C22_Terminates ==
  /\ <>(stage = "done")
  /\ [](stage = "done" =>
          /\ stack = <<>>
          /\ Cardinality(seenCompanies) = Len(placed)
          /\ LET r == buildRecursiveOwnershipTree(ownership_tree[1], isInverted)
             IN /\ Len(placed) = Len(r.nodes)
                /\ \A i \in 1..Len(placed) :
                      /\ placed[i].name = r.nodes[i].name
                      /\ placed[i].x + r.xOffset = r.nodes[i].x
                /\ Len(placed) + skips = Len(r.visits))

\* The layout call is over for a tree in which the target company recurs
\* below itself: the repeated branch was skipped.
C22_Witness ==
  /\ stage = "done"
  /\ ~isInverted
  /\ RefersBack(ownership_tree[1], {})
  /\ Len(Kids(ownership_tree[1])) >= 1
  /\ skips >= 1
  /\ Len(placed) < CountNodes(ownership_tree[1])

====
